---------------------------- MODULE Spec2Model ----------------------------
(***************************************************************************)
(* Model of gba_clock: the Clock orchestrator (src/src/lib.rs), the offset *)
(* arithmetic (src/src/date_time.rs), the BCD codec (src/src/bcd.rs) and   *)
(* the byte-level device reads (src/src/gpio.rs).                          *)
(*                                                                         *)
(* Representation.  TLC integers are 32-bit signed, the program's offsets  *)
(* are u32 values up to 3_155_759_999.  A u32 value n is therefore written *)
(* as the pair <<n \div 86400, n % 86400>> (whole days, seconds of the     *)
(* day); all arithmetic below is carried out on such pairs and wraps at    *)
(* 2^32 = 49710 * 86400 + 23296 exactly where the u32 arithmetic of the    *)
(* program does.  A Date is its Julian day number, a Time is the record    *)
(* [hour, minute, second, nanosecond].                                     *)
(***************************************************************************)
EXTENDS Integers, Sequences, FiniteSets, TLC

SecondsPerDay == 86400
\* RangedU32<0, 3_155_759_999>::MAX = 36524 * 86400 + 86399
MaxOffsetDays == 36524
\* 2^32 = 49710 * 86400 + 23296
U32Days == 49710
U32Secs == 23296

---------------------------------------------------------------------------
\* u32 arithmetic on <<days, seconds>> pairs

Norm(d, s) == <<d + (s \div SecondsPerDay), s % SecondsPerDay>>
Plus(a, b) == Norm(a[1] + b[1], a[2] + b[2])
Minus(a, b) == Norm(a[1] - b[1], a[2] - b[2])
Ge(a, b) == a[1] > b[1] \/ (a[1] = b[1] /\ a[2] >= b[2])
Gt(a, b) == a[1] > b[1] \/ (a[1] = b[1] /\ a[2] > b[2])

Zero == <<0, 0>>
One == <<0, 1>>
TwoPow32 == <<U32Days, U32Secs>>
\* RangedU32<0, 3_155_759_999>::MAX and RangedU32<0, 86_399>::MAX
DATETIME_MAX == <<MaxOffsetDays, SecondsPerDay - 1>>
TIME_MAX == <<0, SecondsPerDay - 1>>

\* the value a u32 register holds after an operation whose exact result is v
WrapU32(v) ==
    IF v[1] < 0 THEN Plus(v, TwoPow32)
    ELSE IF Ge(v, TwoPow32) THEN Minus(v, TwoPow32)
    ELSE v

InRange(max, v) == Ge(v, Zero) /\ Ge(max, v)

\* A ranged value under computation: v is the u32 held, ub records that an
\* unchecked operation was executed outside its contract (undefined behaviour).
Ranged(v) == [v |-> v, ub |-> FALSE]

\* RangedU32::unchecked_sub / unchecked_add: the result must lie in 0..max.
unchecked_sub(max, x, rhs) ==
    LET r == Minus(x.v, rhs)
    IN  [v |-> WrapU32(r), ub |-> x.ub \/ ~InRange(max, r)]

unchecked_add(max, x, rhs) ==
    LET r == Plus(x.v, rhs)
    IN  [v |-> WrapU32(r), ub |-> x.ub \/ ~InRange(max, r)]

\* RangedU32::checked_sub / checked_add: None when the result leaves 0..max.
None == [v |-> Zero, some |-> FALSE]
Some(v) == [v |-> v, some |-> TRUE]

checked_sub(max, a, rhs) ==
    LET r == Minus(a, rhs)
    IN  IF InRange(max, r) THEN Some(r) ELSE None

checked_add(max, a, rhs) ==
    LET r == Plus(a, rhs)
    IN  IF InRange(max, r) THEN Some(r) ELSE None

---------------------------------------------------------------------------
\* Results and errors

Ok(x) == [ok |-> TRUE, val |-> x]
Err(e, v) == [ok |-> FALSE, val |-> v, err |-> e]

---------------------------------------------------------------------------
\* bcd.rs

HighNibble(byte) == (byte \div 16) % 16
LowNibble(byte) == byte % 16
TopBit(byte) == byte \div 128 = 1

\* faulty variant: only the low nibble is checked
BcdTryFrom_LowOnly(value) ==
    IF LowNibble(value) < 10
    THEN Ok(value)
    ELSE Err("InvalidBinaryCodedDecimal", value)

\* faulty variant: the bound on the high nibble is one nibble too low
BcdTryFrom_StrictHigh(value) ==
    IF value < 144 /\ LowNibble(value) < 10
    THEN Ok(value)
    ELSE Err("InvalidBinaryCodedDecimal", value)

\* Bcd::try_from(u8)
BcdTryFrom(value) ==
    IF value < 160 /\ LowNibble(value) < 10
    THEN Ok(value)
    ELSE Err("InvalidBinaryCodedDecimal", value)

\* faulty variant: the high nibble weighted 16, the byte read as binary
to_binary_Hex(bcd) == (16 * HighNibble(bcd) + LowNibble(bcd)) % 256

\* Bcd::to_binary, u8 arithmetic
to_binary(bcd) == (10 * HighNibble(bcd) + LowNibble(bcd)) % 256

\* RangedU8<0, 99>::narrow::<lo, hi>() followed by ok_or(error(value))
Narrow(bcd, lo, hi, error) ==
    IF lo <= to_binary(bcd) /\ to_binary(bcd) <= hi
    THEN Ok(to_binary(bcd))
    ELSE Err(error, to_binary(bcd))

YearFrom(bcd) == Ok(to_binary(bcd))
MonthTryFrom(bcd) == Narrow(bcd, 1, 12, "InvalidMonth")
\* faulty variant: day 0 accepted
DayTryFrom_AcceptsZero(bcd) == Narrow(bcd, 0, 31, "InvalidDay")
DayTryFrom(bcd) == Narrow(bcd, 1, 31, "InvalidDay")
HourTryFrom(bcd) ==
    IF TopBit(bcd) THEN Err("AmPmBitPresent", 0)
    ELSE Narrow(bcd, 0, 23, "InvalidHour")
MinuteTryFrom(bcd) == Narrow(bcd, 0, 59, "InvalidMinute")
SecondTryFrom(bcd) ==
    IF TopBit(bcd) THEN Err("TestMode", 0)
    ELSE Narrow(bcd, 0, 59, "InvalidSecond")

\* Bcd::try_from(byte)?.try_into()? : the BCD error before the field's own
Field(byte, convert(_)) ==
    IF BcdTryFrom(byte).ok THEN convert(byte) ELSE BcdTryFrom(byte)

---------------------------------------------------------------------------
\* date_time.rs

\* faulty variant: April starts one day early
DaysBeforeMonth_ShortMarch ==
    <<0, 31, 59, 89, 120, 151, 181, 212, 243, 273, 304, 334>>

\* the days of a common year before each month
DaysBeforeMonth == <<0, 31, 59, 90, 120, 151, 181, 212, 243, 273, 304, 334>>

\* faulty variant: every year counted as a leap year
calculate_rtc_offset_LeapEveryYear(year, month, day, hour, minute, second) ==
    LET days == year * 366
                + DaysBeforeMonth[month]
                + (IF month > 2 THEN 1 ELSE 0)
                + day - 1
    IN  WrapU32(Norm(days, second + minute * 60 + hour * 3600))

\* calculate_rtc_offset: the u32 result as <<days, seconds of the day>>
calculate_rtc_offset(year, month, day, hour, minute, second) ==
    LET days == year * 365
                + (IF year > 0 THEN (year - 1) \div 4 + 1 ELSE 0)
                + DaysBeforeMonth[month]
                + (IF year % 4 = 0 /\ month > 2 THEN 1 ELSE 0)
                + day - 1
    IN  WrapU32(Norm(days, second + minute * 60 + hour * 3600))

\* RtcTimeOffset::new
RtcTimeOffsetNew(hour, minute, second) ==
    <<0, hour * 3600 + minute * 60 + second>>

\* impl From<Time> for RtcDateTimeOffset: the sub-second part is dropped
OffsetFromTime(time) ==
    <<0, time.hour * 3600 + time.minute * 60 + time.second>>

\* impl From<RtcDateTimeOffset> for RtcTimeOffset: rtc_offset % 86400
\* faulty variant: the offset reduced mod 86399 instead of mod 86400
TimeOffsetFrom_Mod86399(rtc_offset) ==
    <<0, (rtc_offset[1] + rtc_offset[2]) % (SecondsPerDay - 1)>>

TimeOffsetFrom(rtc_offset) == <<0, rtc_offset[2]>>

\* impl From<RtcTimeOffset> for Time: Time::MIDNIGHT + Duration::seconds(n)
TimeFrom(rtc_time_offset) ==
    LET n == rtc_time_offset[2]
    IN  [hour |-> (n \div 3600) % 24,
         minute |-> (n \div 60) % 60,
         second |-> n % 60,
         nanosecond |-> 0]

\* faulty variant: the wraparound branch without its final + 1
OffsetSub_NoCarry(self, other) ==
    IF checked_sub(DATETIME_MAX, self, other).some
    THEN Ranged(checked_sub(DATETIME_MAX, self, other).v)
    ELSE LET inner == unchecked_sub(DATETIME_MAX, Ranged(other), self)
         IN  unchecked_sub(DATETIME_MAX,
                 [v |-> DATETIME_MAX, ub |-> inner.ub], inner.v)

\* impl Sub for RtcDateTimeOffset: wraparound subtraction self - other
OffsetSub(self, other) ==
    IF checked_sub(DATETIME_MAX, self, other).some
    THEN Ranged(checked_sub(DATETIME_MAX, self, other).v)
    ELSE LET inner == unchecked_sub(DATETIME_MAX, Ranged(other), self)
         IN  unchecked_add(DATETIME_MAX,
                 unchecked_sub(DATETIME_MAX,
                     [v |-> DATETIME_MAX, ub |-> inner.ub], inner.v),
                 One)

\* impl AddAssign for RtcDateTimeOffset: self += other
OffsetAddAssign(self, other) ==
    IF checked_add(DATETIME_MAX, self, other).some
    THEN Ranged(checked_add(DATETIME_MAX, self, other).v)
    ELSE IF Gt(self, other)
         THEN unchecked_add(DATETIME_MAX,
                  unchecked_sub(DATETIME_MAX, Ranged(DATETIME_MAX), self), other)
         ELSE unchecked_add(DATETIME_MAX,
                  unchecked_sub(DATETIME_MAX, Ranged(DATETIME_MAX), other), self)

---------------------------------------------------------------------------
\* gpio.rs: decoding of the bytes received in one exchange

\* enum Command
CommandReset == 96
CommandWriteStatus == 98
CommandReadStatus == 99
CommandReadDateTime == 101
CommandReadTime == 103

\* the command each function of gpio.rs passes to send_command
CommandOf(name) ==
    CASE name = "reset" -> CommandReset
      [] name = "set_status" -> CommandWriteStatus
      [] name = "try_read_status" -> CommandReadStatus
      [] name = "try_read_datetime_offset" -> CommandReadDateTime
      [] name = "try_read_time_offset" -> CommandReadTime
      [] name = "is_test_mode" -> CommandReadTime

\* faulty variant: bit 4 left out of the mask
StatusTryFrom_TwoBits(value) ==
    IF value % 2 = 1 \/ (value \div 4) % 2 = 1
    THEN Err("InvalidStatus", value)
    ELSE Ok(value)

\* Status::try_from(u8): bits 0, 2 and 4 are unused (value & 0b0001_0101)
StatusTryFrom(value) ==
    IF value % 2 = 1 \/ (value \div 4) % 2 = 1 \/ (value \div 16) % 2 = 1
    THEN Err("InvalidStatus", value)
    ELSE Ok(value)

POWER == 128
HOUR_24 == 64

\* Status::contains for the single-bit masks POWER and HOUR_24
contains(status, mask) == (status \div mask) % 2 = 1

\* faulty variant: the fields are converted from the second back to the year
try_read_datetime_offset_SecondFirst(b) ==
    LET year == Field(b.year, YearFrom)
        month == Field(b.month, MonthTryFrom)
        day == Field(b.day, DayTryFrom)
        hour == Field(b.hour, HourTryFrom)
        minute == Field(b.minute, MinuteTryFrom)
        second == Field(b.second, SecondTryFrom)
    IN  IF ~second.ok THEN second
        ELSE IF ~minute.ok THEN minute
        ELSE IF ~hour.ok THEN hour
        ELSE IF ~day.ok THEN day
        ELSE IF ~month.ok THEN month
        ELSE IF ~year.ok THEN year
        ELSE Ok(calculate_rtc_offset(year.val, month.val, day.val,
                                     hour.val, minute.val, second.val))

\* try_read_datetime_offset: the seven bytes are converted in the order year,
\* month, day, hour, minute, second; the first failure is returned.
try_read_datetime_offset(b) ==
    LET year == Field(b.year, YearFrom)
        month == Field(b.month, MonthTryFrom)
        day == Field(b.day, DayTryFrom)
        hour == Field(b.hour, HourTryFrom)
        minute == Field(b.minute, MinuteTryFrom)
        second == Field(b.second, SecondTryFrom)
    IN  IF ~year.ok THEN year
        ELSE IF ~month.ok THEN month
        ELSE IF ~day.ok THEN day
        ELSE IF ~hour.ok THEN hour
        ELSE IF ~minute.ok THEN minute
        ELSE IF ~second.ok THEN second
        ELSE Ok(calculate_rtc_offset(year.val, month.val, day.val,
                                     hour.val, minute.val, second.val))

\* try_read_time_offset: hour, minute, second
try_read_time_offset(b) ==
    LET hour == Field(b.hour, HourTryFrom)
        minute == Field(b.minute, MinuteTryFrom)
        second == Field(b.second, SecondTryFrom)
    IN  IF ~hour.ok THEN hour
        ELSE IF ~minute.ok THEN minute
        ELSE IF ~second.ok THEN second
        ELSE Ok(RtcTimeOffsetNew(hour.val, minute.val, second.val))

\* is_test_mode: second & 0b1000_0000 != 0
is_test_mode(b) == TopBit(b.second)

---------------------------------------------------------------------------
\* lib.rs: the computations of the Clock operations

\* Date::MAX of the host calendar (9999-12-31) as a Julian day number
MaxJulianDay == 5373484

\* faulty variant: the wraparound branch without its final + 1
CircularDifference_NoCarry(max, rtc_offset, stored) ==
    IF Ge(rtc_offset, stored)
    THEN unchecked_sub(max, Ranged(rtc_offset), stored)
    ELSE unchecked_add(max,
             unchecked_sub(max, Ranged(max), stored), rtc_offset)

\* the circular difference written inline in read_datetime, read_date,
\* write_date (max = DATETIME_MAX) and read_time, write_time (max = TIME_MAX)
CircularDifference(max, rtc_offset, stored) ==
    IF Ge(rtc_offset, stored)
    THEN unchecked_sub(max, Ranged(rtc_offset), stored)
    ELSE unchecked_add(max,
             unchecked_add(max,
                 unchecked_sub(max, Ranged(max), stored), rtc_offset),
             One)

\* faulty variant: a sum beyond the calendar is clamped to its last instant
MidnightCheckedAdd_Clamps(base_date, duration) ==
    IF base_date + duration[1] > MaxJulianDay
    THEN Ok([time |-> TimeFrom(TIME_MAX), date |-> MaxJulianDay])
    ELSE Ok([time |-> TimeFrom(duration), date |-> base_date + duration[1]])

\* base_date.midnight().checked_add(duration).ok_or(Error::Overflow)
MidnightCheckedAdd(base_date, duration) ==
    IF base_date + duration[1] > MaxJulianDay
    THEN Err("Overflow", 0)
    ELSE Ok([time |-> TimeFrom(duration), date |-> base_date + duration[1]])

\* faulty variant: the duration rounded to the nearest day, not truncated
DateCheckedAdd_RoundsUp(base_date, duration) ==
    LET days == duration[1] + (IF 2 * duration[2] >= SecondsPerDay THEN 1 ELSE 0)
    IN  IF base_date + days > MaxJulianDay
        THEN Err("Overflow", 0)
        ELSE Ok(base_date + days)

\* base_date.checked_add(duration).ok_or(Error::Overflow): whole days only
DateCheckedAdd(base_date, duration) ==
    IF base_date + duration[1] > MaxJulianDay
    THEN Err("Overflow", 0)
    ELSE Ok(base_date + duration[1])

\* Each operation yields [res, ub] for a read and [res, ub, base_date,
\* rtc_offset] for a write, from the Clock's fields and the bytes received.

read_datetime(base_date, rtc_offset, b) ==
    LET r == try_read_datetime_offset(b)
        duration == CircularDifference(DATETIME_MAX, r.val, rtc_offset)
    IN  IF ~r.ok THEN [ub |-> FALSE, res |-> r]
        ELSE [ub |-> duration.ub,
              res |-> MidnightCheckedAdd(base_date, duration.v)]

read_date(base_date, rtc_offset, b) ==
    LET r == try_read_datetime_offset(b)
        duration == CircularDifference(DATETIME_MAX, r.val, rtc_offset)
    IN  IF ~r.ok THEN [ub |-> FALSE, res |-> r]
        ELSE [ub |-> duration.ub,
              res |-> DateCheckedAdd(base_date, duration.v)]

read_time(rtc_offset, b) ==
    LET r == try_read_time_offset(b)
        stored_time_offset == TimeOffsetFrom(rtc_offset)
        elapsed == CircularDifference(TIME_MAX, r.val, stored_time_offset)
    IN  IF ~r.ok THEN [ub |-> FALSE, res |-> r]
        ELSE [ub |-> elapsed.ub, res |-> Ok(TimeFrom(elapsed.v))]

\* faulty variant: the new offset is stored, the new date is not
write_datetime_KeepsDate(base_date, rtc_offset, b, datetime) ==
    LET r == try_read_datetime_offset(b)
        new_offset == OffsetSub(r.val, OffsetFromTime(datetime.time))
    IN  IF ~r.ok
        THEN [ub |-> FALSE,
              rtc_offset |-> rtc_offset,
              base_date |-> base_date,
              res |-> r]
        ELSE [ub |-> new_offset.ub,
              rtc_offset |-> new_offset.v,
              base_date |-> base_date,
              res |-> Ok(0)]

write_datetime(base_date, rtc_offset, b, datetime) ==
    LET r == try_read_datetime_offset(b)
        new_offset == OffsetSub(r.val, OffsetFromTime(datetime.time))
    IN  IF ~r.ok
        THEN [ub |-> FALSE,
              rtc_offset |-> rtc_offset,
              base_date |-> base_date,
              res |-> r]
        ELSE [ub |-> new_offset.ub,
              rtc_offset |-> new_offset.v,
              base_date |-> datetime.date,
              res |-> Ok(0)]

\* faulty variant: base_date is assigned before the device read is checked
write_date_CommitsEarly(base_date, rtc_offset, b, date) ==
    LET r == try_read_datetime_offset(b)
        elapsed == CircularDifference(DATETIME_MAX, r.val, rtc_offset)
        current_time_offset == TimeOffsetFrom(elapsed.v)
        new_offset == unchecked_sub(DATETIME_MAX,
                          [v |-> r.val, ub |-> elapsed.ub], current_time_offset)
    IN  IF ~r.ok
        THEN [ub |-> FALSE,
              rtc_offset |-> rtc_offset,
              base_date |-> date,
              res |-> r]
        ELSE [ub |-> new_offset.ub,
              rtc_offset |-> new_offset.v,
              base_date |-> date,
              res |-> Ok(0)]

write_date(base_date, rtc_offset, b, date) ==
    LET r == try_read_datetime_offset(b)
        elapsed == CircularDifference(DATETIME_MAX, r.val, rtc_offset)
        current_time_offset == TimeOffsetFrom(elapsed.v)
        new_offset == unchecked_sub(DATETIME_MAX,
                          [v |-> r.val, ub |-> elapsed.ub], current_time_offset)
    IN  IF ~r.ok
        THEN [ub |-> FALSE,
              rtc_offset |-> rtc_offset,
              base_date |-> base_date,
              res |-> r]
        ELSE [ub |-> new_offset.ub,
              rtc_offset |-> new_offset.v,
              base_date |-> date,
              res |-> Ok(0)]

\* (current_time - time).whole_seconds(): Time - Time is a Duration whose
\* seconds and nanoseconds have the same sign; whole_seconds drops the latter
WholeSecondsBetween(current_time, time) ==
    LET secs == (current_time.hour - time.hour) * 3600
                + (current_time.minute - time.minute) * 60
                + (current_time.second - time.second)
        nanos == current_time.nanosecond - time.nanosecond
    IN  IF secs > 0 /\ nanos < 0 THEN secs - 1
        ELSE IF secs < 0 /\ nanos > 0 THEN secs + 1
        ELSE secs

write_time(base_date, rtc_offset, b, time) ==
    LET r == try_read_time_offset(b)
        stored_time_offset == TimeOffsetFrom(rtc_offset)
        current_time ==
            TimeFrom(CircularDifference(TIME_MAX, r.val, stored_time_offset).v)
        delta == WholeSecondsBetween(current_time, time)
        new_offset == IF delta < 0
                      THEN OffsetSub(rtc_offset, <<0, -delta>>)
                      ELSE OffsetAddAssign(rtc_offset, <<0, delta>>)
    IN  IF ~r.ok
        THEN [ub |-> FALSE,
              rtc_offset |-> rtc_offset,
              base_date |-> base_date,
              res |-> r]
        ELSE [ub |-> new_offset.ub
                     \/ CircularDifference(TIME_MAX, r.val, stored_time_offset).ub,
              rtc_offset |-> new_offset.v,
              base_date |-> base_date,
              res |-> Ok(0)]

---------------------------------------------------------------------------
\* Bounds of the model and the values the environment draws from

NumDeviceStates == 5
NumDateTimes == 3
NumDates == 2
NumTimes == 3
NumPersisted == 1
\* write_* calls made on one Clock
MaxWrites == 1

\* what the device holds: the status register and the seven date-time
\* registers, as the raw bytes it sends
Regs(st, y, mo, d, h, mi, s) ==
    [year |-> y,
     month |-> mo,
     day |-> d,
     hour |-> h,
     minute |-> mi,
     second |-> s,
     status |-> st,
     weekday |-> 0]

\* the two decimal digits of n as one BCD byte, as the device stores them
Digits(n) == (n \div 10) * 16 + (n % 10)

\* POWER with the test flag, the AM/PM flag, month 0x13
DeviceSeq ==
    << Regs(0, Digits(0), Digits(1), Digits(1), Digits(0), Digits(0), Digits(0)),
       Regs(64, Digits(0), Digits(1), Digits(1), Digits(0), Digits(1), Digits(40)),
       Regs(64, Digits(12), Digits(12), Digits(21), Digits(5), Digits(23), Digits(0)),
       Regs(64, Digits(99), Digits(12), Digits(31), Digits(23), Digits(59), Digits(59)),
       Regs(128, Digits(12), Digits(12), Digits(21), Digits(5), Digits(23), 128 + Digits(7)),
       Regs(64, Digits(12), Digits(12), Digits(21), Digits(6), Digits(23), Digits(0)),
       Regs(0, Digits(12), Digits(12), Digits(21), 128 + Digits(5), Digits(23), Digits(0)),
       Regs(64, Digits(12), 19, Digits(21), Digits(5), Digits(23), Digits(0)),
       Regs(64, Digits(12), Digits(12), Digits(22), Digits(4), Digits(0), Digits(0)) >>

DeviceStates == {DeviceSeq[i] : i \in 1..NumDeviceStates}

\* what the lines carry when no RTC answers (GPIO not enabled, or no RTC on
\* the cartridge): every bit low or every bit high
FloatingLines ==
    { Regs(0, 0, 0, 0, 0, 0, 0),
      [year |-> 255,
       month |-> 255,
       day |-> 255,
       hour |-> 255,
       minute |-> 255,
       second |-> 255,
       status |-> 255,
       weekday |-> 255] }

HMS(h, m, s, ns) == [hour |-> h, minute |-> m, second |-> s, nanosecond |-> ns]

TimeSeq ==
    << HMS(0, 0, 0, 0), HMS(5, 23, 0, 0), HMS(5, 23, 0, 500000000),
       HMS(22, 22, 0, 0), HMS(23, 59, 59, 0) >>

\* Julian day numbers of 2012-12-21, 9999-12-31, 2000-01-01, 2027-02-19
DateSeq == << 2456283, MaxJulianDay, 2451545, 2461456 >>

\* 2012-12-21T05:23:00, 9999-12-31T23:59:59, 2012-12-21T05:23:00.5,
\* 2000-01-01T00:00:00, 2012-12-21T22:22:00
DateTimeSeq ==
    << [time |-> TimeSeq[2], date |-> DateSeq[1]],
       [time |-> TimeSeq[5], date |-> DateSeq[2]],
       [time |-> TimeSeq[3], date |-> DateSeq[1]],
       [time |-> TimeSeq[1], date |-> DateSeq[3]],
       [time |-> TimeSeq[4], date |-> DateSeq[1]] >>

\* the fields of Clocks that were serialized earlier
PersistedSeq ==
    << [rtc_offset |-> <<36524, 67020>>, base_date |-> DateSeq[1]],
       [rtc_offset |-> Zero, base_date |-> DateSeq[3]],
       [rtc_offset |-> DATETIME_MAX, base_date |-> DateSeq[1]] >>
Persisted == {PersistedSeq[i] : i \in 1..NumPersisted}

Times == {TimeSeq[i] : i \in 1..NumTimes}
Dates == {DateSeq[i] : i \in 1..NumDates}
DateTimes == {DateTimeSeq[i] : i \in 1..NumDateTimes}

---------------------------------------------------------------------------
\* State

VARIABLES
    active,       \* a Clock value exists (Uninitialized -> Active)
    base_date,    \* Clock::base_date
    rtc_offset,   \* Clock::rtc_offset
    device,       \* the RTC's registers
    present,      \* the cartridge carries an RTC
    ENABLE,       \* the I/O port control register
    op,           \* the operation that has just returned, if nothing happened
                  \* on the device or the port since: its name, its argument, the
                  \* bytes it received, whether an RTC answered (the port
                  \* enabled and an RTC present) and the Clock's fields
                  \* when it was called
    result,       \* what that operation returned
    anchor,       \* the last operation that set the Clock's fields
    writes,       \* write_* calls made on the Clock
    ub,           \* an unchecked operation has run outside its contract
    halted,       \* the program has panicked
    exchanges,    \* the gpio functions the last operation called, in order
    IME,          \* the interrupt master enable register
    DATA,         \* the I/O port data register: SCK, SIO and CS as last written
    RW_MODE,      \* the I/O port direction register
    exchange,     \* the gpio function that is running, or "none"
    pc,           \* the register accesses it has made
    previous_ime, \* its local variable
    acc,          \* the local variable byte of read_byte
    received,     \* the bytes read_byte has returned to it
    clocked,      \* the bits the device has taken from SIO on rising SCK edges
    edges,        \* the rising SCK edges the device has seen in read direction
    irq,          \* the gpio function that was running, and the accesses it
                  \* had made, when an interrupt handler last ran
    argument,     \* the argument of the transport function that is running
    trace,        \* the register accesses made since the function was entered
    operation     \* the Clock operation that is running register by register,
                  \* and its argument

port == <<IME, DATA, RW_MODE, exchange, pc, previous_ime, acc, received,
          clocked, edges, irq, argument, trace, operation>>

vars == <<active, base_date, rtc_offset, device, present, ENABLE, op, result,
          anchor, writes, ub, halted, exchanges, port>>

NoLine == Regs(0, 0, 0, 0, 0, 0, 0)

Called(name, arg, line, answered) ==
    [name |-> name,
     arg |-> arg,
     line |-> line,
     answered |-> answered,
     pre |-> [rtc_offset |-> rtc_offset, base_date |-> base_date]]

\* no gpio function is running; the registers hold their values at power-on
PortIdle ==
    /\ DATA = 0
    /\ RW_MODE = 0
    /\ exchange = "none"
    /\ pc = 0
    /\ previous_ime = FALSE
    /\ acc = 0
    /\ received = <<>>
    /\ clocked = <<>>
    /\ edges = 0
    /\ irq = <<"none", 0>>
    /\ argument = 0
    /\ trace = <<>>
    /\ operation = <<"none", 0>>

Init ==
    /\ active = FALSE
    /\ base_date = DateSeq[1]
    /\ rtc_offset = Zero
    /\ device \in DeviceStates
    /\ present \in BOOLEAN
    /\ ENABLE = 0
    /\ op = Called("none", 0, NoLine, FALSE)
    /\ result = Ok(0)
    /\ anchor = Called("none", 0, NoLine, FALSE)
    /\ writes = 0
    /\ ub = FALSE
    /\ halted = FALSE
    /\ exchanges = <<>>
    /\ IME = FALSE
    /\ PortIdle

\* an RTC answers the exchanges, and the bytes an exchange can receive
Answered == ENABLE = 1 /\ present
Lines == IF Answered THEN {device} ELSE FloatingLines

---------------------------------------------------------------------------
\* The device's side of the commands Reset and WriteStatus; a device that
\* does not implement writes (honoured = FALSE) keeps its registers

AfterReset(dev, honoured) ==
    IF honoured
    THEN Regs(0, Digits(0), Digits(1), Digits(1), Digits(0), Digits(0), Digits(0))
    ELSE dev

AfterSetStatus(dev, value, honoured) ==
    IF honoured THEN [dev EXCEPT !.status = value] ELSE dev

---------------------------------------------------------------------------
\* Clock::new: enable, reset, status check, test-mode check, 24-hour mode,
\* then the first offset read.  Once ENABLE is 1 an exchange receives the
\* device's registers if there is a device and floating lines f otherwise.

\* faulty variant: the offset is read before the 24-hour bit is set
new_ReadsBeforeHour24(dev, has_rtc, f, honoured, datetime) ==
    LET line(d) == IF has_rtc THEN d ELSE f
        d1 == AfterReset(dev, honoured)
        status == StatusTryFrom(line(d1).status)
        d2 == IF contains(status.val, POWER) THEN AfterReset(d1, honoured) ELSE d1
        d3 == IF is_test_mode(line(d2)) THEN AfterReset(d2, honoured) ELSE d2
        d4 == AfterSetStatus(d3, HOUR_24, honoured)
        r == try_read_datetime_offset(line(d3))
        offset == OffsetSub(r.val, OffsetFromTime(datetime.time))
        checked == << <<"enable", 0>>, <<"reset", 0>>,
                      <<"try_read_status", line(d1).status>> >>
        called == checked
                  \o (IF contains(status.val, POWER)
                      THEN << <<"reset", 0>> >> ELSE <<>>)
                  \o << <<"is_test_mode", line(d2).second>> >>
                  \o (IF is_test_mode(line(d2))
                      THEN << <<"reset", 0>> >> ELSE <<>>)
                  \o << <<"try_read_datetime_offset", 0>>,
                        <<"set_status", HOUR_24>> >>
    IN  IF ~status.ok
        THEN [res |-> status,
              device |-> d1,
              exchanges |-> checked,
              line |-> line(d1)]
        ELSE IF ~r.ok
        THEN [res |-> r, device |-> d4, exchanges |-> called, line |-> line(d3)]
        ELSE [rtc_offset |-> offset.v,
              base_date |-> datetime.date,
              res |-> Ok(0),
              device |-> d4,
              exchanges |-> called,
              line |-> line(d3)]

\* Clock::new.  Each call is recorded with the byte its caller decides on: the
\* status byte of try_read_status, the seconds byte of is_test_mode, the
\* argument of set_status
new(dev, has_rtc, f, honoured, datetime) ==
    LET line(d) == IF has_rtc THEN d ELSE f
        d1 == AfterReset(dev, honoured)
        status == StatusTryFrom(line(d1).status)
        d2 == IF contains(status.val, POWER) THEN AfterReset(d1, honoured) ELSE d1
        d3 == IF is_test_mode(line(d2)) THEN AfterReset(d2, honoured) ELSE d2
        d4 == AfterSetStatus(d3, HOUR_24, honoured)
        r == try_read_datetime_offset(line(d4))
        offset == OffsetSub(r.val, OffsetFromTime(datetime.time))
        checked == << <<"enable", 0>>, <<"reset", 0>>,
                      <<"try_read_status", line(d1).status>> >>
        called == checked
                  \o (IF contains(status.val, POWER)
                      THEN << <<"reset", 0>> >> ELSE <<>>)
                  \o << <<"is_test_mode", line(d2).second>> >>
                  \o (IF is_test_mode(line(d2))
                      THEN << <<"reset", 0>> >> ELSE <<>>)
                  \o << <<"set_status", HOUR_24>>,
                        <<"try_read_datetime_offset", 0>> >>
    IN  IF ~status.ok
        THEN [res |-> status,
              device |-> d1,
              exchanges |-> checked,
              line |-> line(d1)]
        ELSE IF ~r.ok
        THEN [res |-> r, device |-> d4, exchanges |-> called, line |-> line(d4)]
        ELSE [rtc_offset |-> offset.v,
              base_date |-> datetime.date,
              res |-> Ok(0),
              device |-> d4,
              exchanges |-> called,
              line |-> line(d4)]

New(datetime) ==
    /\ ~halted /\ ~active
    /\ \E f \in FloatingLines, honoured \in BOOLEAN :
         LET o == new(device, present, f, honoured, datetime)
         IN  /\ ENABLE' = 1
             /\ device' = IF present THEN o.device ELSE device
             /\ op' = Called("new", datetime, o.line, present)
             /\ result' = o.res
             /\ IF o.res.ok
                THEN /\ active' = TRUE
                     /\ base_date' = o.base_date
                     /\ rtc_offset' = o.rtc_offset
                     /\ anchor' = Called("new", datetime, o.line, present)
                ELSE UNCHANGED <<active, base_date, rtc_offset, anchor>>
             /\ exchanges' = o.exchanges
    /\ UNCHANGED <<present, writes, ub, halted, port>>

\* a Clock built field by field after gpio::enable(), as the crate's tests do
ManualClock ==
    /\ ~halted /\ ~active
    /\ ENABLE' = 1
    /\ active' = TRUE
    /\ base_date' = DateSeq[1]
    /\ rtc_offset' = Zero
    /\ op' = Called("manual", 0, NoLine, FALSE)
    /\ result' = Ok(0)
    /\ exchanges' = << <<"enable", 0>> >>
    /\ UNCHANGED <<device, present, anchor, writes, ub, halted, port>>

\* faulty variant: the restored Clock is returned whatever the probe reads
deserialize_SkipsProbe(dev, has_rtc, f, honoured, parsed) ==
    LET line(d) == IF has_rtc THEN d ELSE f
        d1 == AfterSetStatus(dev, HOUR_24, honoured)
        status == StatusTryFrom(line(d1).status)
        checked == << <<"enable", 0>>, <<"set_status", HOUR_24>>,
                      <<"try_read_status", line(d1).status>> >>
        probed == checked \o << <<"is_test_mode", line(d1).second>> >>
    IN  IF ~parsed
        THEN [res |-> Err("de", 0),
              device |-> dev,
              exchanges |-> <<>>,
              line |-> NoLine]
        ELSE IF ~status.ok
        THEN [res |-> Err("could not read RTC status", status.val),
              device |-> d1,
              exchanges |-> checked,
              line |-> line(d1)]
        ELSE IF contains(status.val, POWER)
        THEN [res |-> Err("RTC power bit is set", status.val),
              device |-> d1,
              exchanges |-> checked,
              line |-> line(d1)]
        ELSE [res |-> Ok(0), device |-> d1, exchanges |-> probed, line |-> line(d1)]

\* impl Deserialize for Clock: once the two fields are parsed, enable,
\* set_status(HOUR_24), the status check and the test-mode check; each failure
\* is a de::Error::custom with its message
deserialize(dev, has_rtc, f, honoured, parsed) ==
    LET line(d) == IF has_rtc THEN d ELSE f
        d1 == AfterSetStatus(dev, HOUR_24, honoured)
        status == StatusTryFrom(line(d1).status)
        checked == << <<"enable", 0>>, <<"set_status", HOUR_24>>,
                      <<"try_read_status", line(d1).status>> >>
        probed == checked \o << <<"is_test_mode", line(d1).second>> >>
    IN  IF ~parsed
        THEN [res |-> Err("de", 0),
              device |-> dev,
              exchanges |-> <<>>,
              line |-> NoLine]
        ELSE IF ~status.ok
        THEN [res |-> Err("could not read RTC status", status.val),
              device |-> d1,
              exchanges |-> checked,
              line |-> line(d1)]
        ELSE IF contains(status.val, POWER)
        THEN [res |-> Err("RTC power bit is set", status.val),
              device |-> d1,
              exchanges |-> checked,
              line |-> line(d1)]
        ELSE IF is_test_mode(line(d1))
        THEN [res |-> Err("RTC is in test mode", line(d1).second),
              device |-> d1,
              exchanges |-> probed,
              line |-> line(d1)]
        ELSE [res |-> Ok(0), device |-> d1, exchanges |-> probed, line |-> line(d1)]

\* a Clock restored from the two fields a Clock was serialized as
Deserialize(saved, parsed) ==
    /\ ~halted /\ ~active
    /\ \E f \in FloatingLines, honoured \in BOOLEAN :
         LET o == deserialize(device, present, f, honoured, parsed)
         IN  /\ ENABLE' = IF parsed THEN 1 ELSE ENABLE
             /\ device' = IF present THEN o.device ELSE device
             /\ op' = Called("deserialize", saved, o.line, present /\ parsed)
             /\ result' = o.res
             /\ exchanges' = o.exchanges
             /\ IF o.res.ok
                THEN /\ active' = TRUE
                     /\ base_date' = saved.base_date
                     /\ rtc_offset' = saved.rtc_offset
                ELSE UNCHANGED <<active, base_date, rtc_offset>>
    /\ UNCHANGED <<present, anchor, writes, ub, halted, port>>

Idle == Called("none", 0, NoLine, FALSE)

\* gpio::disable()
Disable ==
    /\ ~halted
    /\ ENABLE = 1
    /\ ENABLE' = 0
    /\ op' = Idle
    /\ result' = Ok(0)
    /\ exchanges' = <<>>
    /\ UNCHANGED <<active, base_date, rtc_offset, device, present, anchor,
                   writes, ub, halted, port>>

\* time passes on the device, or its registers are disturbed
DeviceStep(d) ==
    /\ ~halted
    /\ present
    /\ d # device
    /\ device' = d
    /\ op' = Idle
    /\ result' = Ok(0)
    /\ exchanges' = <<>>
    /\ UNCHANGED <<active, base_date, rtc_offset, present, ENABLE, anchor,
                   writes, ub, halted, port>>

\* faulty variant: a write_* method resets the device before it reads it
ExchangesOf_WriteResets(name) ==
    IF name = "read_time" THEN << <<"try_read_time_offset", 0>> >>
    ELSE IF name = "write_time"
    THEN << <<"reset", 0>>, <<"try_read_time_offset", 0>> >>
    ELSE IF name \in {"read_datetime", "read_date"}
    THEN << <<"try_read_datetime_offset", 0>> >>
    ELSE << <<"reset", 0>>, <<"try_read_datetime_offset", 0>> >>

\* the gpio function each read_* and write_* method calls
ExchangesOf(name) ==
    IF name \in {"read_time", "write_time"}
    THEN << <<"try_read_time_offset", 0>> >>
    ELSE << <<"try_read_datetime_offset", 0>> >>

\* the device after the exchanges of one operation
DeviceAfter(dev, calls) ==
    LET RECURSIVE after(_, _)
        after(d, i) ==
            IF i > Len(calls) THEN d
            ELSE after(IF calls[i][1] = "reset" THEN AfterReset(d, TRUE)
                       ELSE IF calls[i][1] = "set_status"
                            THEN AfterSetStatus(d, calls[i][2], TRUE)
                       ELSE d,
                       i + 1)
    IN  after(dev, 1)

\* a method's exchanges reach the device; every gpio function has returned
Exchanged(name) ==
    /\ exchanges' = ExchangesOf(name)
    /\ device' = IF Answered
                 THEN DeviceAfter(device, ExchangesOf(name))
                 ELSE device
    /\ UNCHANGED port

\* How an operation ends: it returns, or, when an unchecked operation ran
\* outside its contract, the build may instead have panicked there (a build
\* that let one such operation pass lets them all pass).
Returns(o) ==
    /\ result' = o.res
    /\ ub' = (ub \/ o.ub)
    /\ halted' = FALSE

Panics(o) ==
    /\ o.ub /\ ~ub
    /\ result' = Err("Panic", 0)
    /\ ub' = TRUE
    /\ halted' = TRUE

\* faulty variant: a successful read re-anchors the Clock at the offset it read
ReadDatetime_Reanchors ==
    /\ ~halted /\ active
    /\ \E w \in Lines :
         LET o == read_datetime(base_date, rtc_offset, w)
         IN  /\ op' = Called("read_datetime", 0, w, Answered)
             /\ Returns(o)
             /\ rtc_offset' = IF o.res.ok
                              THEN try_read_datetime_offset(w).val
                              ELSE rtc_offset
    /\ Exchanged("read_datetime")
    /\ UNCHANGED <<active, base_date, present, ENABLE, anchor, writes>>

ReadDatetime ==
    /\ ~halted /\ active
    /\ \E w \in Lines :
         LET o == read_datetime(base_date, rtc_offset, w)
         IN  /\ op' = Called("read_datetime", 0, w, Answered)
             /\ Returns(o)
    /\ Exchanged("read_datetime")
    /\ UNCHANGED <<active, base_date, rtc_offset, present, ENABLE, anchor, writes>>

ReadDate ==
    /\ ~halted /\ active
    /\ \E w \in Lines :
         LET o == read_date(base_date, rtc_offset, w)
         IN  /\ op' = Called("read_date", 0, w, Answered)
             /\ Returns(o)
    /\ Exchanged("read_date")
    /\ UNCHANGED <<active, base_date, rtc_offset, present, ENABLE, anchor, writes>>

ReadTime ==
    /\ ~halted /\ active
    /\ \E w \in Lines :
         LET o == read_time(rtc_offset, w)
         IN  /\ op' = Called("read_time", 0, w, Answered)
             /\ Returns(o)
    /\ Exchanged("read_time")
    /\ UNCHANGED <<active, base_date, rtc_offset, present, ENABLE, anchor, writes>>

\* the anchor a successful write leaves
Anchored(name, arg, w, o) ==
    IF o.res.ok THEN Called(name, arg, w, Answered) ELSE anchor

WriteDatetime(datetime) ==
    /\ ~halted /\ active /\ writes < MaxWrites
    /\ \E w \in Lines :
         LET o == write_datetime(base_date, rtc_offset, w, datetime)
         IN  /\ op' = Called("write_datetime", datetime, w, Answered)
             /\ Returns(o)
             /\ base_date' = o.base_date
             /\ rtc_offset' = o.rtc_offset
             /\ anchor' = Anchored("write_datetime", datetime, w, o)
    /\ writes' = writes + 1
    /\ Exchanged("write_datetime")
    /\ UNCHANGED <<active, present, ENABLE>>

WriteDate(date) ==
    /\ ~halted /\ active /\ writes < MaxWrites
    /\ \E w \in Lines :
         LET o == write_date(base_date, rtc_offset, w, date)
         IN  /\ op' = Called("write_date", date, w, Answered)
             /\ \/ /\ Returns(o)
                   /\ base_date' = o.base_date
                   /\ rtc_offset' = o.rtc_offset
                   /\ anchor' = Anchored("write_date", date, w, o)
                \/ /\ Panics(o)
                   /\ base_date' = date
                   /\ UNCHANGED <<rtc_offset, anchor>>
    /\ writes' = writes + 1
    /\ Exchanged("write_date")
    /\ UNCHANGED <<active, present, ENABLE>>

WriteTime(time) ==
    /\ ~halted /\ active /\ writes < MaxWrites
    /\ \E w \in Lines :
         LET o == write_time(base_date, rtc_offset, w, time)
         IN  /\ op' = Called("write_time", time, w, Answered)
             /\ Returns(o)
             /\ base_date' = o.base_date
             /\ rtc_offset' = o.rtc_offset
             /\ anchor' = Anchored("write_time", time, w, o)
    /\ writes' = writes + 1
    /\ Exchanged("write_time")
    /\ UNCHANGED <<active, present, ENABLE>>

Next ==
    \/ \E datetime \in DateTimes : New(datetime)
    \/ ManualClock
    \/ \E saved \in Persisted, parsed \in BOOLEAN : Deserialize(saved, parsed)
    \/ Disable
    \/ \E d \in DeviceStates : DeviceStep(d)
    \/ ReadDatetime
    \/ ReadDate
    \/ ReadTime
    \/ \E datetime \in DateTimes : WriteDatetime(datetime)
    \/ \E date \in Dates : WriteDate(date)
    \/ \E time \in Times : WriteTime(time)

Spec == Init /\ [][Next]_vars

TypeOK ==
    /\ active \in BOOLEAN
    /\ ENABLE \in {0, 1}
    /\ rtc_offset[2] \in 0..(SecondsPerDay - 1)

---------------------------------------------------------------------------
\* The conversions of single bytes, called one at a time

\* a u8
MaxByte == 255
Bytes == 0..MaxByte

\* the largest value of two decimal digits, RangedU8<0, 99>
MaxBcd == 99

\* the encoding of n as two decimal digits, (n / 10) << 4 | (n % 10)
binary_to_bcd(n) == (n \div 10) * 16 + (n % 10)

Converted(name, arg, outcome) ==
    /\ op' = Called(name, arg, NoLine, FALSE)
    /\ result' = outcome
    /\ UNCHANGED <<active, base_date, rtc_offset, device, present, ENABLE,
                   anchor, writes, ub, halted, exchanges, port>>

\* Bcd::try_from(byte)
BcdFromByte(byte) ==
    /\ byte \in Bytes
    /\ Converted("Bcd", byte, BcdTryFrom(byte))

\* Bcd::to_binary on a Bcd that Bcd::try_from built
ToBinary(byte) ==
    /\ byte \in Bytes
    /\ BcdTryFrom(byte).ok
    /\ Converted("to_binary", byte, Ok(to_binary(byte)))

\* Bcd::try_from(byte)?.into() and Bcd::try_from(byte)?.try_into()? on a byte
\* received from the device
DecodeYear(byte) ==
    /\ byte \in Bytes
    /\ Converted("Year", byte, Field(byte, YearFrom))
DecodeMonth(byte) ==
    /\ byte \in Bytes
    /\ Converted("Month", byte, Field(byte, MonthTryFrom))
DecodeDay(byte) ==
    /\ byte \in Bytes
    /\ Converted("Day", byte, Field(byte, DayTryFrom))
DecodeHour(byte) ==
    /\ byte \in Bytes
    /\ Converted("Hour", byte, Field(byte, HourTryFrom))
DecodeMinute(byte) ==
    /\ byte \in Bytes
    /\ Converted("Minute", byte, Field(byte, MinuteTryFrom))
DecodeSecond(byte) ==
    /\ byte \in Bytes
    /\ Converted("Second", byte, Field(byte, SecondTryFrom))

\* Status::try_from(byte)
StatusFromByte(byte) ==
    /\ byte \in Bytes
    /\ Converted("Status", byte, StatusTryFrom(byte))

\* n encoded as two decimal digits, wrapped as a Bcd and converted back
EncodeDecode(n) ==
    /\ n \in 0..MaxBcd
    /\ Converted("binary_to_bcd", n,
                 IF BcdTryFrom(binary_to_bcd(n)).ok
                 THEN Ok(to_binary(binary_to_bcd(n)))
                 ELSE BcdTryFrom(binary_to_bcd(n)))

DecodeNext ==
    \/ \E byte \in Bytes : BcdFromByte(byte)
    \/ \E byte \in Bytes : ToBinary(byte)
    \/ \E byte \in Bytes : DecodeYear(byte)
    \/ \E byte \in Bytes : DecodeMonth(byte)
    \/ \E byte \in Bytes : DecodeDay(byte)
    \/ \E byte \in Bytes : DecodeHour(byte)
    \/ \E byte \in Bytes : DecodeMinute(byte)
    \/ \E byte \in Bytes : DecodeSecond(byte)
    \/ \E byte \in Bytes : StatusFromByte(byte)
    \/ \E n \in 0..MaxBcd : EncodeDecode(n)

\* the conversions touch neither the Clock nor the device
DecodeInit == Init /\ device = DeviceSeq[1] /\ present

DecodeSpec == DecodeInit /\ [][DecodeNext]_vars

---------------------------------------------------------------------------
\* The offset arithmetic of date_time.rs on its own: the inputs are drawn when
\* the specification starts and each action applies one function to them

NumYears == 4
NumScalars == 8

YearSeq == <<0, 3, 4, 99, 1, 96>>
Years == {YearSeq[i] : i \in 1..NumYears}
DaySamples == {1, 28, 29, 30, 31}
ClockSamples == {<<0, 0, 0>>, <<23, 59, 59>>}

\* (Year, Month, Day, Hour, Minute, Second) as the field types accept them
FieldTuples ==
    {<<y, mo, d, c[1], c[2], c[3]>> :
        y \in Years, mo \in 1..12, d \in DaySamples, c \in ClockSamples}

\* the device's calendar: the length of each month, February 29 in every
\* fourth year, the year 00 included
MonthLength(year, month) ==
    IF month = 2 THEN (IF year % 4 = 0 THEN 29 ELSE 28)
    ELSE IF month \in {4, 6, 9, 11} THEN 30
    ELSE 31

\* the date-time the device shows one second after t; 99-12-31 23:59:59 is
\* followed by 00-01-01 00:00:00
NextSecond(t) ==
    IF t[6] < 59 THEN <<t[1], t[2], t[3], t[4], t[5], t[6] + 1>>
    ELSE IF t[5] < 59 THEN <<t[1], t[2], t[3], t[4], t[5] + 1, 0>>
    ELSE IF t[4] < 23 THEN <<t[1], t[2], t[3], t[4] + 1, 0, 0>>
    ELSE IF t[3] < MonthLength(t[1], t[2])
    THEN <<t[1], t[2], t[3] + 1, 0, 0, 0>>
    ELSE IF t[2] < 12 THEN <<t[1], t[2] + 1, 1, 0, 0, 0>>
    ELSE <<(t[1] + 1) % 100, 1, 1, 0, 0, 0>>

TickSamples ==
    {<<0, 0, 0>>, <<0, 0, 59>>, <<0, 59, 59>>, <<12, 30, 29>>, <<22, 59, 59>>,
     <<23, 59, 59>>}

\* the date-times of the calendar in the sampled years, every day of them
Instants ==
    UNION {{<<y, mo, d, c[1], c[2], c[3]>> :
               d \in 1..MonthLength(y, mo), c \in TickSamples} :
           y \in Years, mo \in 1..12}

ScalarSeq ==
    << Zero, One, <<0, 19380>>, DATETIME_MAX, <<36524, 67020>>,
       <<0, 86399>>, <<1, 0>>, <<36524, 86398>>, <<18262, 43200>>,
       <<36524, 67019>> >>
Scalars == {ScalarSeq[i] : i \in 1..NumScalars}

Given(name) == op.name = "given" /\ op.arg[1] = name

Applied(name, arg, outcome) ==
    /\ op' = Called(name, arg, NoLine, FALSE)
    /\ result' = Ok(outcome)
    /\ UNCHANGED <<active, base_date, rtc_offset, device, present, ENABLE,
                   anchor, writes, ub, halted, exchanges, port>>

\* calculate_rtc_offset on each of two field tuples
CalculateRtcOffset ==
    /\ Given("fields")
    /\ LET t == op.arg[2]
       IN  Applied("calculate_rtc_offset", t,
                   << calculate_rtc_offset(t[1][1], t[1][2], t[1][3],
                                           t[1][4], t[1][5], t[1][6]),
                      calculate_rtc_offset(t[2][1], t[2][2], t[2][3],
                                           t[2][4], t[2][5], t[2][6]) >>)

\* a - b, (a - b) += b, and the difference written inline in lib.rs
Subtract ==
    /\ Given("scalars")
    /\ LET s == op.arg[2]
           sub == OffsetSub(s[1], s[2])
       IN  Applied("sub", s,
                   [ub |-> sub.ub,
                    sub |-> sub.v,
                    inline |-> CircularDifference(DATETIME_MAX, s[1], s[2]),
                    back |-> OffsetAddAssign(sub.v, s[2])])

\* a += b, and (a += b) - b
AddAssign ==
    /\ Given("scalars")
    /\ LET s == op.arg[2]
           sum == OffsetAddAssign(s[1], s[2])
       IN  Applied("add_assign", s,
                   [ub |-> sum.ub,
                    back |-> OffsetSub(sum.v, s[2]),
                    sum |-> sum.v])

\* calculate_rtc_offset of what the device shows at one second and at the next
Tick ==
    /\ Given("instant")
    /\ LET t == op.arg[2]
           next == NextSecond(t)
       IN  Applied("tick", t,
                   << calculate_rtc_offset(t[1], t[2], t[3], t[4], t[5], t[6]),
                      calculate_rtc_offset(next[1], next[2], next[3],
                                           next[4], next[5], next[6]) >>)

OffsetNext ==
    \/ CalculateRtcOffset
    \/ Subtract
    \/ AddAssign
    \/ Tick

OffsetInit ==
    /\ active = FALSE
    /\ base_date = DateSeq[1]
    /\ rtc_offset = Zero
    /\ device = DeviceSeq[1]
    /\ present = TRUE
    /\ ENABLE = 0
    /\ \/ \E t \in FieldTuples \X FieldTuples :
              op = Called("given", <<"fields", t>>, NoLine, FALSE)
       \/ \E s \in Scalars \X Scalars :
              op = Called("given", <<"scalars", s>>, NoLine, FALSE)
       \/ \E t \in Instants :
              op = Called("given", <<"instant", t>>, NoLine, FALSE)
    /\ result = Ok(0)
    /\ anchor = Called("none", 0, NoLine, FALSE)
    /\ writes = 0
    /\ ub = FALSE
    /\ halted = FALSE
    /\ exchanges = <<>>
    /\ IME = FALSE
    /\ PortIdle

OffsetSpec == OffsetInit /\ [][OffsetNext]_vars

---------------------------------------------------------------------------
\* gpio.rs register by register: one step per volatile access of a gpio
\* function, the device's side of the three lines, and an interrupt handler

\* struct Data and enum RwMode
SCK == 1
SIO == 2
CS == 4
RwModeRead == 5
RwModeWrite == 7

GpioFunctions ==
    {"reset", "try_read_status", "set_status", "is_test_mode",
     "try_read_datetime_offset", "try_read_time_offset"}

DataWrite(v) == <<"DATA.write", v>>

\* faulty variant: the bits go out from the lowest to the highest
SendCommand_LowestFirst(command) ==
    LET bit(i) == ((command \div (2 ^ i)) % 2) * 2
        one(i) == << DataWrite(CS + bit(i)), DataWrite(CS + bit(i)),
                     DataWrite(CS + bit(i)), DataWrite(CS + SCK + bit(i)) >>
    IN  one(0) \o one(1) \o one(2) \o one(3) \o one(4) \o one(5) \o one(6)
        \o one(7)

\* send_command: bits = command << 1 as a u8, and for i = 7 down to 0 the
\* bit (bits >> i) & 2 written three times with SCK low and once with SCK high
SendCommand(command) ==
    LET bits == (command * 2) % 256
        bit(i) == (((bits \div (2 ^ i)) \div 2) % 2) * 2
        one(i) == << DataWrite(CS + bit(i)), DataWrite(CS + bit(i)),
                     DataWrite(CS + bit(i)), DataWrite(CS + SCK + bit(i)) >>
    IN  one(7) \o one(6) \o one(5) \o one(4) \o one(3) \o one(2) \o one(1)
        \o one(0)

\* read_byte: eight times, CS written five times, CS | SCK once, DATA read
ReadByte ==
    LET one == << DataWrite(CS), DataWrite(CS), DataWrite(CS), DataWrite(CS),
                  DataWrite(CS), DataWrite(CS + SCK), <<"DATA.read", 0>> >>
    IN  one \o one \o one \o one \o one \o one \o one \o one

\* faulty variant: the bits go out from the highest to the lowest
WriteByte_HighestFirst(value) ==
    LET bit(i) == ((value \div (2 ^ i)) % 2) * 2
        one(i) == << DataWrite(bit(i) + CS), DataWrite(bit(i) + CS),
                     DataWrite(bit(i) + CS), DataWrite(bit(i) + CS + SCK) >>
    IN  one(7) \o one(6) \o one(5) \o one(4) \o one(3) \o one(2) \o one(1)
        \o one(0)

\* faulty variant: SCK is raised in the third write of each bit
WriteByte_ThreeWrites(value) ==
    LET bit(i) == ((value \div (2 ^ i)) % 2) * 2
        one(i) == << DataWrite(bit(i) + CS), DataWrite(bit(i) + CS),
                     DataWrite(bit(i) + CS + SCK) >>
    IN  one(0) \o one(1) \o one(2) \o one(3) \o one(4) \o one(5) \o one(6)
        \o one(7)

\* write_byte: for i = 0 up to 7 the bit (byte >> i << 1) & 2 written three
\* times with SCK low and once with SCK high
WriteByte(value) ==
    LET bit(i) == ((value \div (2 ^ i)) % 2) * 2
        one(i) == << DataWrite(bit(i) + CS), DataWrite(bit(i) + CS),
                     DataWrite(bit(i) + CS), DataWrite(bit(i) + CS + SCK) >>
    IN  one(0) \o one(1) \o one(2) \o one(3) \o one(4) \o one(5) \o one(6)
        \o one(7)

\* what every gpio function starts and ends with
Opening(command) ==
    << <<"IME.read", 0>>, <<"IME.clear", 0>>,
       DataWrite(SCK), DataWrite(CS + SCK), <<"RW_MODE.write", RwModeWrite>> >>
    \o SendCommand(command)

\* faulty variant: CS is left high
Closing_SelectHeld ==
    << DataWrite(CS + SCK), DataWrite(CS + SCK), <<"IME.restore", 0>> >>

Closing ==
    << DataWrite(SCK), DataWrite(SCK), <<"IME.restore", 0>> >>

Reading == << <<"RW_MODE.write", RwModeRead>> >>

\* the volatile accesses of each gpio function, in program order
Programs ==
    [name \in GpioFunctions |->
        Opening(CommandOf(name))
        \o (CASE name = "reset" -> <<>>
              [] name = "try_read_status" -> Reading \o ReadByte
              [] name = "set_status" -> WriteByte(HOUR_24)
              [] name = "is_test_mode" ->
                    Reading \o ReadByte \o ReadByte \o ReadByte
              [] name = "try_read_time_offset" ->
                    Reading \o ReadByte \o ReadByte \o ReadByte
              [] name = "try_read_datetime_offset" ->
                    Reading \o ReadByte \o ReadByte \o ReadByte \o ReadByte
                    \o ReadByte \o ReadByte \o ReadByte)
        \o Closing]

\* the three transport functions the gpio functions are made of
Primitives == {"send_command", "read_byte", "write_byte"}

\* the accesses of the function that is running
Program ==
    IF exchange \in GpioFunctions THEN Programs[exchange]
    ELSE IF exchange = "send_command" THEN SendCommand(argument)
    ELSE IF exchange = "write_byte" THEN WriteByte(argument)
    ELSE IF exchange = "read_byte" THEN ReadByte
    ELSE <<>>

Running == exchange # "none" /\ pc < Len(Program)
Access == Program[pc + 1]

\* the variables no gpio function touches
clock == <<active, base_date, rtc_offset, present, ENABLE, anchor, writes, ub,
           halted, exchanges, operation>>

---------------------------------------------------------------------------
\* The device's side: it takes a bit from SIO on each rising edge of SCK while
\* CS is high and the direction is Write, the command first and most
\* significant bit first, then the data least significant bit first; in the
\* direction Read it presents the next bit of its answer on each rising edge;
\* it acts on Reset and WriteStatus when CS falls

MsbFirst(bits) ==
    LET RECURSIVE value(_)
        value(i) == IF i = 0 THEN 0 ELSE 2 * value(i - 1) + bits[i]
    IN  value(Len(bits))

LsbFirst(bits) ==
    LET RECURSIVE value(_)
        value(i) == IF i > Len(bits) THEN 0 ELSE bits[i] + 2 * value(i + 1)
    IN  value(1)

CommandTaken(bits) ==
    IF Len(bits) >= 8 THEN MsbFirst(SubSeq(bits, 1, 8)) ELSE 0

Answer(dev, command) ==
    IF command = CommandReadStatus THEN <<dev.status>>
    ELSE IF command = CommandReadDateTime
    THEN <<dev.year, dev.month, dev.day, dev.weekday,
           dev.hour, dev.minute, dev.second>>
    ELSE IF command = CommandReadTime
    THEN <<dev.hour, dev.minute, dev.second>>
    ELSE <<>>

\* the level of SIO after the n-th rising edge in the direction Read
Driven(dev, bits, n) ==
    LET answer == Answer(dev, CommandTaken(bits))
        i == n - 1
    IN  IF n >= 1 /\ i \div 8 < Len(answer)
        THEN (answer[i \div 8 + 1] \div (2 ^ (i % 8))) % 2
        ELSE 1

Acted(dev, bits, honoured) ==
    IF CommandTaken(bits) = CommandReset THEN AfterReset(dev, honoured)
    ELSE IF CommandTaken(bits) = CommandWriteStatus /\ Len(bits) = 16
    THEN AfterSetStatus(dev, LsbFirst(SubSeq(bits, 9, 16)), honoured)
    ELSE dev

---------------------------------------------------------------------------
\* The steps of a gpio function

\* faulty variant: the fourth byte is taken for the hour
LineOf_WeekdayAsHour(name, bytes) ==
    IF name = "try_read_status"
    THEN Regs(bytes[1], 0, 0, 0, 0, 0, 0)
    ELSE IF name = "try_read_datetime_offset"
    THEN [year |-> bytes[1],
          month |-> bytes[2],
          day |-> bytes[3],
          hour |-> bytes[4],
          minute |-> bytes[6],
          second |-> bytes[7],
          status |-> 0,
          weekday |-> bytes[5]]
    ELSE IF name \in {"try_read_time_offset", "is_test_mode"}
    THEN Regs(0, 0, 0, 0, bytes[1], bytes[2], bytes[3])
    ELSE NoLine

\* the bytes a gpio function has read, as the registers they stand for
LineOf(name, bytes) ==
    IF name = "try_read_status"
    THEN Regs(bytes[1], 0, 0, 0, 0, 0, 0)
    ELSE IF name = "try_read_datetime_offset"
    THEN [year |-> bytes[1],
          month |-> bytes[2],
          day |-> bytes[3],
          hour |-> bytes[5],
          minute |-> bytes[6],
          second |-> bytes[7],
          status |-> 0,
          weekday |-> bytes[4]]
    ELSE IF name \in {"try_read_time_offset", "is_test_mode"}
    THEN Regs(0, 0, 0, 0, bytes[1], bytes[2], bytes[3])
    ELSE NoLine

\* what the function returns once IME is restored
Returned(name, line) ==
    IF name = "try_read_status" THEN StatusTryFrom(line.status)
    ELSE IF name = "try_read_datetime_offset" THEN try_read_datetime_offset(line)
    ELSE IF name = "try_read_time_offset" THEN try_read_time_offset(line)
    ELSE IF name = "is_test_mode" THEN Ok(is_test_mode(line))
    ELSE Ok(0)

\* a gpio function is entered; op keeps IME as it is at that moment
Enter(name) ==
    /\ ~halted
    /\ exchange = "none"
    /\ exchange' = name
    /\ pc' = 0
    /\ acc' = 0
    /\ received' = <<>>
    /\ clocked' = <<>>
    /\ edges' = 0
    /\ irq' = <<"none", 0>>
    /\ argument' = 0
    /\ trace' = <<>>
    /\ op' = Called("enter", IME, NoLine, TRUE)
    /\ result' = Ok(0)
    /\ UNCHANGED <<clock, device, IME, DATA, RW_MODE, previous_ime>>

\* let previous_ime = IME.read_volatile()
ReadIME ==
    /\ Running
    /\ Access[1] = "IME.read"
    /\ previous_ime' = IME
    /\ pc' = pc + 1
    /\ trace' = Append(trace, Access)
    /\ UNCHANGED <<clock, device, op, result, IME, DATA, RW_MODE, exchange,
                   acc, received, clocked, edges, irq, argument>>

\* faulty variant: the flag is left as it is
ClearIME_Skipped ==
    /\ Running
    /\ Access[1] = "IME.clear"
    /\ pc' = pc + 1
    /\ trace' = Append(trace, Access)
    /\ UNCHANGED <<clock, device, op, result, IME, DATA, RW_MODE, exchange,
                   previous_ime, acc, received, clocked, edges, irq, argument>>

\* IME.write_volatile(false)
ClearIME ==
    /\ Running
    /\ Access[1] = "IME.clear"
    /\ IME' = FALSE
    /\ pc' = pc + 1
    /\ trace' = Append(trace, Access)
    /\ UNCHANGED <<clock, device, op, result, DATA, RW_MODE, exchange,
                   previous_ime, acc, received, clocked, edges, irq, argument>>

\* RW_MODE.write_volatile(..)
WriteRWMODE ==
    /\ Running
    /\ Access[1] = "RW_MODE.write"
    /\ RW_MODE' = Access[2]
    /\ pc' = pc + 1
    /\ trace' = Append(trace, Access)
    /\ UNCHANGED <<clock, device, op, result, IME, DATA, exchange,
                   previous_ime, acc, received, clocked, edges, irq, argument>>

\* DATA.write_volatile(..), and what the device does on the edge it makes
WriteDATA ==
    /\ Running
    /\ Access[1] = "DATA.write"
    /\ LET v == Access[2]
           rising == DATA % 2 = 0 /\ v % 2 = 1 /\ v >= CS
           released == DATA >= CS /\ v < CS
       IN  /\ DATA' = v
           /\ clocked' = IF rising /\ RW_MODE = RwModeWrite
                         THEN Append(clocked, (v \div SIO) % 2)
                         ELSE clocked
           /\ edges' = IF rising /\ RW_MODE = RwModeRead
                       THEN edges + 1
                       ELSE edges
           /\ \E honoured \in BOOLEAN :
                 device' = IF released
                           THEN Acted(device, clocked, honoured)
                           ELSE device
    /\ pc' = pc + 1
    /\ trace' = Append(trace, Access)
    /\ UNCHANGED <<clock, op, result, IME, RW_MODE, exchange, previous_ime,
                   acc, received, irq, argument>>

\* what DATA.read_volatile() returns: SCK and CS as last written, SIO at the
\* level the device drives
Sampled(data, level) ==
    (data - ((data \div SIO) % 2) * SIO) + level * SIO

\* faulty variant: the new bit enters at the low end
ShiftIn_MsbFirst(byte, data) ==
    ((byte * 2) % 256) + ((data \div SIO) % 2)

\* (byte >> 1) | (((u8::from(data & SIO)) >> 1) << 7)
ShiftIn(byte, data) ==
    LET masked == ((data \div SIO) % 2) * SIO
    IN  (byte \div 2) + (((masked \div 2) * 128) % 256)

\* byte = (byte >> 1) | ..DATA.read_volatile()..; the eighth pass of the loop
\* completes the byte read_byte returns
ReadDATA ==
    /\ Running
    /\ Access[1] = "DATA.read"
    /\ LET sampled == Sampled(DATA, Driven(device, clocked, edges))
           shifted == ShiftIn(acc, sampled)
           passes == Cardinality({i \in 1..Len(trace) :
                                     trace[i][1] = "DATA.read"}) + 1
       IN  /\ IF passes % 8 = 0
              THEN acc' = 0 /\ received' = Append(received, shifted)
              ELSE acc' = shifted /\ received' = received
           /\ trace' = Append(trace, <<"DATA.read", sampled>>)
    /\ pc' = pc + 1
    /\ UNCHANGED <<clock, device, op, result, IME, DATA, RW_MODE, exchange,
                   previous_ime, clocked, edges, irq, argument>>

\* faulty variant: interrupts are left disabled
RestoreIME_LeavesCleared ==
    /\ Running
    /\ Access[1] = "IME.restore"
    /\ IME' = FALSE
    /\ pc' = pc + 1
    /\ trace' = Append(trace, Access)
    /\ UNCHANGED <<clock, device, op, result, DATA, RW_MODE, exchange,
                   previous_ime, acc, received, clocked, edges, irq, argument>>

\* IME.write_volatile(previous_ime)
RestoreIME ==
    /\ Running
    /\ Access[1] = "IME.restore"
    /\ IME' = previous_ime
    /\ pc' = pc + 1
    /\ trace' = Append(trace, Access)
    /\ UNCHANGED <<clock, device, op, result, DATA, RW_MODE, exchange,
                   previous_ime, acc, received, clocked, edges, irq, argument>>

\* the conversions of the bytes read, and the return
Return ==
    /\ exchange # "none"
    /\ exchange \in GpioFunctions
    /\ pc = Len(Program)
    /\ op' = Called(exchange, op.arg, LineOf(exchange, received), TRUE)
    /\ result' = Returned(exchange, LineOf(exchange, received))
    /\ exchange' = "none"
    /\ pc' = 0
    /\ UNCHANGED <<clock, device, IME, DATA, RW_MODE, previous_ime, acc,
                   received, clocked, edges, irq, argument, trace>>

\* an interrupt handler runs, which it can only while IME is set, and returns
\* with IME as it found it; irq keeps where the running function was
Handler ==
    /\ IME
    /\ irq # <<exchange, pc>>
    /\ irq' = <<exchange, pc>>
    /\ UNCHANGED <<clock, device, op, result, IME, DATA, RW_MODE, exchange,
                   pc, previous_ime, acc, received, clocked, edges, argument,
                   trace>>

ExchangeNext ==
    \/ \E name \in GpioFunctions : Enter(name)
    \/ ReadIME
    \/ ClearIME
    \/ WriteRWMODE
    \/ WriteDATA
    \/ ReadDATA
    \/ RestoreIME
    \/ Return
    \/ Handler

\* enable() has been called, as it is before any gpio function in lib.rs, and
\* the cartridge carries an RTC; interrupts are enabled or not
\* the day-of-week register: Sunday, Friday, and a byte that is no BCD
Weekdays == {0, 5, 255}

ExchangeInit ==
    /\ active = FALSE
    /\ base_date = DateSeq[1]
    /\ rtc_offset = Zero
    /\ device \in {[d EXCEPT !.weekday = w] : d \in DeviceStates, w \in Weekdays}
    /\ present = TRUE
    /\ ENABLE = 1
    /\ op = Called("none", 0, NoLine, FALSE)
    /\ result = Ok(0)
    /\ anchor = Called("none", 0, NoLine, FALSE)
    /\ writes = 0
    /\ ub = FALSE
    /\ halted = FALSE
    /\ exchanges = <<>>
    /\ IME \in BOOLEAN
    /\ PortIdle

ExchangeSpec == ExchangeInit /\ [][ExchangeNext]_vars

---------------------------------------------------------------------------
\* The conversions of the bytes of one read, on lines with several malformed
\* bytes

\* a byte of each kind for each register: well-formed, no BCD, a flag set,
\* out of range, a flag set on a byte that is no BCD
YearBytes == {18, 250}
MonthBytes == {18, 26, 19, 0}
DayBytes == {33, 43, 50}
HourBytes == {5, 12, 133, 36, 197}
MinuteBytes == {35, 95, 96}
SecondBytes == {0, 13, 128, 96, 224}

DateTimeLines ==
    {Regs(0, y, mo, d, h, mi, s) :
        y \in YearBytes, mo \in MonthBytes, d \in DayBytes, h \in HourBytes,
        mi \in MinuteBytes, s \in SecondBytes}

TimeLines ==
    {Regs(0, 0, 0, 0, h, mi, s) :
        h \in HourBytes, mi \in MinuteBytes, s \in SecondBytes}

\* the conversions at the end of try_read_datetime_offset
ConvertDateTime ==
    /\ Given("datetime line")
    /\ Converted("try_read_datetime_offset", op.arg[2],
                 try_read_datetime_offset(op.arg[2]))

\* the conversions at the end of try_read_time_offset
ConvertTime ==
    /\ Given("time line")
    /\ Converted("try_read_time_offset", op.arg[2],
                 try_read_time_offset(op.arg[2]))

LineNext ==
    \/ ConvertDateTime
    \/ ConvertTime

LineInit ==
    /\ active = FALSE
    /\ base_date = DateSeq[1]
    /\ rtc_offset = Zero
    /\ device = DeviceSeq[1]
    /\ present = TRUE
    /\ ENABLE = 1
    /\ \/ \E line \in DateTimeLines :
              op = Called("given", <<"datetime line", line>>, NoLine, FALSE)
       \/ \E line \in TimeLines :
              op = Called("given", <<"time line", line>>, NoLine, FALSE)
    /\ result = Ok(0)
    /\ anchor = Called("none", 0, NoLine, FALSE)
    /\ writes = 0
    /\ ub = FALSE
    /\ halted = FALSE
    /\ exchanges = <<>>
    /\ IME = FALSE
    /\ PortIdle

LineSpec == LineInit /\ [][LineNext]_vars

---------------------------------------------------------------------------
\* send_command, read_byte and write_byte on their own: each is called once,
\* in the state its caller has brought the port to, with every argument and
\* every byte the device can hold

Commands ==
    {CommandReset, CommandWriteStatus, CommandReadStatus, CommandReadDateTime,
     CommandReadTime}

\* the eight bits of a byte as the device has taken them, the highest first
TakenBits(value) ==
    [i \in 1..8 |-> (value \div (2 ^ (8 - i))) % 2]

\* the transport function is called with its argument
Call ==
    /\ op.name = "given"
    /\ exchange = "none"
    /\ exchange' = op.arg[1]
    /\ argument' = op.arg[2]
    /\ pc' = 0
    /\ acc' = 0
    /\ received' = <<>>
    /\ trace' = <<>>
    /\ op' = Called("call", op.arg, NoLine, TRUE)
    /\ UNCHANGED <<clock, device, result, IME, DATA, RW_MODE, previous_ime,
                   clocked, edges, irq>>

\* it returns: read_byte its byte, the other two nothing
Back ==
    /\ exchange \in Primitives
    /\ pc = Len(Program)
    /\ op' = Called(exchange, argument, NoLine, TRUE)
    /\ result' = Ok(IF exchange = "read_byte" THEN received[1] ELSE 0)
    /\ exchange' = "none"
    /\ pc' = 0
    /\ UNCHANGED <<clock, device, IME, DATA, RW_MODE, previous_ime, acc,
                   received, clocked, edges, irq, argument, trace>>

TransportNext ==
    \/ Call
    \/ WriteDATA
    \/ ReadDATA
    \/ Back

\* send_command is called after DATA = CS | SCK and RW_MODE = Write;
\* write_byte after send_command(WriteStatus); read_byte after
\* send_command(ReadStatus) and RW_MODE = Read, the device holding any byte
TransportInit ==
    /\ active = FALSE
    /\ base_date = DateSeq[1]
    /\ rtc_offset = Zero
    /\ present = TRUE
    /\ ENABLE = 1
    /\ result = Ok(0)
    /\ anchor = Called("none", 0, NoLine, FALSE)
    /\ writes = 0
    /\ ub = FALSE
    /\ halted = FALSE
    /\ exchanges = <<>>
    /\ IME = FALSE
    /\ exchange = "none"
    /\ pc = 0
    /\ previous_ime = FALSE
    /\ acc = 0
    /\ received = <<>>
    /\ edges = 0
    /\ irq = <<"none", 0>>
    /\ argument = 0
    /\ trace = <<>>
    /\ operation = <<"none", 0>>
    /\ \/ \E command \in Commands :
              /\ op = Called("given", <<"send_command", command>>, NoLine,
                             FALSE)
              /\ device = DeviceSeq[1]
              /\ DATA = CS + SCK
              /\ RW_MODE = RwModeWrite
              /\ clocked = <<>>
       \/ \E value \in Bytes :
              /\ op = Called("given", <<"write_byte", value>>, NoLine, FALSE)
              /\ device = DeviceSeq[1]
              /\ DATA = CS + SCK
              /\ RW_MODE = RwModeWrite
              /\ clocked = TakenBits(CommandWriteStatus)
       \/ \E value \in Bytes :
              /\ op = Called("given", <<"read_byte", 0>>, NoLine, FALSE)
              /\ device = [DeviceSeq[1] EXCEPT !.status = value]
              /\ DATA = CS + SCK + SIO
              /\ RW_MODE = RwModeRead
              /\ clocked = TakenBits(CommandReadStatus)

TransportSpec == TransportInit /\ [][TransportNext]_vars



---------------------------------------------------------------------------
\* The Clock's operations register by register: each calls its gpio functions
\* one after the other, and what a function returns decides the next call

ClockOperations ==
    {"new", "read_datetime", "read_date", "read_time", "write_datetime",
     "write_date", "write_time"}

\* the argument each operation is called with
ArgumentOf(name) ==
    IF name \in {"new", "write_datetime"} THEN DateTimeSeq[3]
    ELSE IF name = "write_date" THEN DateSeq[1]
    ELSE IF name = "write_time" THEN TimeSeq[2]
    ELSE 0

\* faulty variant: Clock::new goes on after try_read_status has failed
NextCall_IgnoresError ==
    LET n == Len(exchanges)
        last == exchanges[n][1]
    IN  IF operation[1] = "new"
        THEN IF n = 1 THEN "reset"
             ELSE IF n = 2 THEN "try_read_status"
             ELSE IF n = 3
             THEN (IF contains(result.val, POWER) THEN "reset"
                   ELSE "is_test_mode")
             ELSE IF ~result.ok THEN "return"
             ELSE IF last = "reset" /\ exchanges[n - 1][1] = "try_read_status"
             THEN "is_test_mode"
             ELSE IF last = "is_test_mode"
             THEN (IF result.val THEN "reset" ELSE "set_status")
             ELSE IF last = "reset" THEN "set_status"
             ELSE IF last = "set_status" THEN "try_read_datetime_offset"
             ELSE "return"
        ELSE IF n = 0 THEN ExchangesOf(operation[1])[1][1]
        ELSE "return"

\* the gpio function the running operation calls next, "return" when it
\* returns: the ? after a call returns its error at once
NextCall ==
    LET n == Len(exchanges)
        last == exchanges[n][1]
    IN  IF operation[1] = "new"
        THEN IF n = 1 THEN "reset"
             ELSE IF ~result.ok THEN "return"
             ELSE IF n = 2 THEN "try_read_status"
             ELSE IF n = 3
             THEN (IF contains(result.val, POWER) THEN "reset"
                   ELSE "is_test_mode")
             ELSE IF last = "reset" /\ exchanges[n - 1][1] = "try_read_status"
             THEN "is_test_mode"
             ELSE IF last = "is_test_mode"
             THEN (IF result.val THEN "reset" ELSE "set_status")
             ELSE IF last = "reset" THEN "set_status"
             ELSE IF last = "set_status" THEN "try_read_datetime_offset"
             ELSE "return"
        ELSE IF n = 0 THEN ExchangesOf(operation[1])[1][1]
        ELSE "return"

\* an operation is called; Clock::new starts with enable()
Begin(name) ==
    /\ ~halted
    /\ operation[1] = "none"
    /\ exchange = "none"
    /\ active = (name # "new")
    /\ name \in {"write_datetime", "write_date", "write_time"}
          => writes < MaxWrites
    /\ operation' = <<name, ArgumentOf(name)>>
    /\ ENABLE' = IF name = "new" THEN 1 ELSE ENABLE
    /\ exchanges' = IF name = "new" THEN << <<"enable", 0>> >> ELSE <<>>
    /\ trace' = IF name = "new" THEN << <<"ENABLE.write", 1>> >> ELSE <<>>
    /\ op' = Called("begin", name, NoLine, TRUE)
    /\ result' = Ok(0)
    /\ UNCHANGED <<active, base_date, rtc_offset, device, present, anchor,
                   writes, ub, halted, IME, DATA, RW_MODE, exchange, pc,
                   previous_ime, acc, received, clocked, edges, irq, argument>>

\* the operation calls its next gpio function
Proceed ==
    /\ operation[1] # "none"
    /\ exchange = "none"
    /\ NextCall # "return"
    /\ exchange' = NextCall
    /\ pc' = 0
    /\ acc' = 0
    /\ received' = <<>>
    /\ clocked' = <<>>
    /\ edges' = 0
    /\ irq' = <<"none", 0>>
    /\ argument' = 0
    /\ op' = Called("enter", IME, NoLine, TRUE)
    /\ UNCHANGED <<clock, device, result, IME, DATA, RW_MODE, previous_ime,
                   trace>>

\* the gpio function returns to the operation
Resume ==
    /\ operation[1] # "none"
    /\ exchange \in GpioFunctions
    /\ pc = Len(Program)
    /\ LET line == LineOf(exchange, received)
           decides == IF exchange = "try_read_status" THEN line.status
                      ELSE IF exchange = "is_test_mode" THEN line.second
                      ELSE IF exchange = "set_status" THEN HOUR_24
                      ELSE 0
       IN  /\ op' = Called(exchange, op.arg, line, TRUE)
           /\ result' = Returned(exchange, line)
           /\ exchanges' = Append(exchanges, <<exchange, decides>>)
    /\ exchange' = "none"
    /\ pc' = 0
    /\ UNCHANGED <<active, base_date, rtc_offset, device, present, ENABLE,
                   anchor, writes, ub, halted, operation, IME, DATA, RW_MODE,
                   previous_ime, acc, received, clocked, edges, irq, argument,
                   trace>>

\* one of the named operations is between two calls and has no call left
Returning(names) ==
    /\ operation[1] \in names
    /\ exchange = "none"
    /\ NextCall = "return"

\* Clock::new returns: the error of the call that failed, or the Clock
FinishNew ==
    /\ Returning({"new"})
    /\ LET datetime == operation[2]
           offset == OffsetSub(result.val, OffsetFromTime(datetime.time))
       IN  /\ op' = Called("new", datetime, op.line, present)
           /\ IF result.ok
              THEN /\ active' = TRUE
                   /\ base_date' = datetime.date
                   /\ rtc_offset' = offset.v
                   /\ anchor' = Called("new", datetime, op.line, present)
                   /\ result' = Ok(0)
              ELSE UNCHANGED <<active, base_date, rtc_offset, anchor, result>>
    /\ operation' = <<"none", 0>>
    /\ UNCHANGED <<device, present, ENABLE, writes, ub, halted, exchanges,
                   IME, DATA, RW_MODE, exchange, pc, previous_ime, acc,
                   received, clocked, edges, irq, argument, trace>>

\* read_datetime, read_date or read_time returns
FinishRead ==
    /\ Returning({"read_datetime", "read_date", "read_time"})
    /\ LET o == IF operation[1] = "read_datetime"
                THEN read_datetime(base_date, rtc_offset, op.line)
                ELSE IF operation[1] = "read_date"
                THEN read_date(base_date, rtc_offset, op.line)
                ELSE read_time(rtc_offset, op.line)
       IN  /\ op' = Called(operation[1], 0, op.line, Answered)
           /\ Returns(o)
    /\ operation' = <<"none", 0>>
    /\ UNCHANGED <<active, base_date, rtc_offset, device, present, ENABLE,
                   anchor, writes, exchanges, IME, DATA, RW_MODE, exchange,
                   pc, previous_ime, acc, received, clocked, edges, irq,
                   argument, trace>>

\* write_datetime, write_date or write_time returns
FinishWrite ==
    /\ Returning({"write_datetime", "write_date", "write_time"})
    /\ LET arg == operation[2]
           o == IF operation[1] = "write_datetime"
                THEN write_datetime(base_date, rtc_offset, op.line, arg)
                ELSE IF operation[1] = "write_date"
                THEN write_date(base_date, rtc_offset, op.line, arg)
                ELSE write_time(base_date, rtc_offset, op.line, arg)
       IN  /\ op' = Called(operation[1], arg, op.line, Answered)
           /\ \/ /\ Returns(o)
                 /\ base_date' = o.base_date
                 /\ rtc_offset' = o.rtc_offset
                 /\ anchor' = Anchored(operation[1], arg, op.line, o)
              \/ /\ operation[1] = "write_date"
                 /\ Panics(o)
                 /\ base_date' = arg
                 /\ UNCHANGED <<rtc_offset, anchor>>
    /\ writes' = writes + 1
    /\ operation' = <<"none", 0>>
    /\ UNCHANGED <<active, device, present, ENABLE, exchanges, IME, DATA,
                   RW_MODE, exchange, pc, previous_ime, acc, received,
                   clocked, edges, irq, argument, trace>>

OperationNext ==
    \/ \E name \in ClockOperations : Begin(name)
    \/ Proceed
    \/ ReadIME
    \/ ClearIME
    \/ WriteRWMODE
    \/ WriteDATA
    \/ ReadDATA
    \/ RestoreIME
    \/ Resume
    \/ FinishNew
    \/ FinishRead
    \/ FinishWrite

\* no Clock yet, the port not yet enabled, an RTC that holds any of the
\* sampled registers or registers that read all zeros or all ones
OperationInit ==
    /\ active = FALSE
    /\ base_date = DateSeq[1]
    /\ rtc_offset = Zero
    /\ device \in DeviceStates \cup FloatingLines
    /\ present = TRUE
    /\ ENABLE = 0
    /\ op = Called("none", 0, NoLine, FALSE)
    /\ result = Ok(0)
    /\ anchor = Called("none", 0, NoLine, FALSE)
    /\ writes = 0
    /\ ub = FALSE
    /\ halted = FALSE
    /\ exchanges = <<>>
    /\ IME = FALSE
    /\ PortIdle

OperationSpec == OperationInit /\ [][OperationNext]_vars

---------------------------------------------------------------------------
\* Vocabulary of the properties

Reads == {"read_datetime", "read_date", "read_time"}
Writes == {"write_datetime", "write_date", "write_time"}

\* the offset the device reported in the given bytes
Reported(line) == try_read_datetime_offset(line)

\* one full cycle of the device counter, 3_155_760_000 seconds
Cycle == Plus(DATETIME_MAX, One)

\* the device seconds elapsed from one report to a later one
ElapsedBetween(from, to) ==
    LET x == Minus(Reported(to).val, Reported(from).val)
    IN  IF x[1] < 0 THEN Plus(x, Cycle) ELSE x

IsWhole(time) == time.nanosecond = 0
TimeOfDay(time) == <<0, time.hour * 3600 + time.minute * 60 + time.second>>

\* a date-time as <<Julian day, second of the day, nanosecond>>
Instant(datetime) ==
    <<datetime.date, TimeOfDay(datetime.time)[2], datetime.time.nanosecond>>

\* the date-time e seconds after datetime, in the same form
Later(datetime, e) ==
    LET n == Plus(TimeOfDay(datetime.time), e)
    IN  <<datetime.date + n[1], n[2], datetime.time.nanosecond>>

\* the host calendar can represent the instant
Representable(instant) == instant[1] <= MaxJulianDay

\* what read_datetime showed with the bytes of the anchoring write, just
\* before that write
Before ==
    read_datetime(anchor.pre.base_date, anchor.pre.rtc_offset, anchor.line).res

\* read_datetime has just returned on a Clock last set by the named operation
ReadAfter(name) ==
    /\ op.name = "read_datetime"
    /\ anchor.name = name
    /\ Reported(op.line).ok

---------------------------------------------------------------------------
\* C1: Clock::new(D), D in whole seconds, followed by read_datetime() with
\* the device reporting the same offset in both reads returns exactly D.
C1_NewThenRead ==
    ( /\ ReadAfter("new")
      /\ IsWhole(anchor.arg.time)
      /\ Reported(op.line).val = Reported(anchor.line).val )
    => (result.ok /\ result.val = anchor.arg)

\* C1 witness: such a read, where new's subtraction wrapped around (the
\* time-of-day of D exceeds the offset the device reported)
C1_Witness ==
    /\ ReadAfter("new")
    /\ IsWhole(anchor.arg.time)
    /\ Reported(op.line).val = Reported(anchor.line).val
    /\ Gt(TimeOfDay(anchor.arg.time), Reported(anchor.line).val)
    /\ result.ok

\* the device advanced by e seconds since the Clock was set, with e plus the
\* time-of-day of D less than one full cycle
WithinCycle ==
    Gt(Cycle, Plus(ElapsedBetween(anchor.line, op.line),
                   TimeOfDay(anchor.arg.time)))

ReturnsLater ==
    /\ result.ok
    /\ Instant(result.val)
         = Later(anchor.arg, ElapsedBetween(anchor.line, op.line))

\* C2 as stated: after Clock::new(D), with the device advanced by e seconds
\* (e plus the time-of-day of D less than one cycle), read_datetime()
\* returns D + e.
C2_Original ==
    (ReadAfter("new") /\ WithinCycle) => ReturnsLater

\* C2 amended: for D in whole seconds, read_datetime() returns D + e when
\* D + e is within the host calendar and Error::Overflow when it is beyond.
C2_NewThenReadLater ==
    (ReadAfter("new") /\ WithinCycle /\ IsWhole(anchor.arg.time))
    => IF Representable(Later(anchor.arg, ElapsedBetween(anchor.line, op.line)))
       THEN ReturnsLater
       ELSE ~result.ok /\ result.err = "Overflow"

\* C2 witness: the device counter passed its maximum and restarted between
\* construction and the read, and the read returned D + e
C2_Witness ==
    /\ ReadAfter("new") /\ WithinCycle /\ IsWhole(anchor.arg.time)
    /\ Gt(Reported(anchor.line).val, Reported(op.line).val)
    /\ ReturnsLater

\* C3 as stated: a successful write_datetime(D) followed by read_datetime()
\* after e elapsed device seconds returns D + e.
C3_Original ==
    ReadAfter("write_datetime") => ReturnsLater

\* C3 amended: for D in whole seconds and e plus the time-of-day of D less
\* than one cycle, read_datetime() returns D + e when D + e is within the
\* host calendar and Error::Overflow when it is beyond.
C3_WriteThenRead ==
    (ReadAfter("write_datetime") /\ WithinCycle /\ IsWhole(anchor.arg.time))
    => IF Representable(Later(anchor.arg, ElapsedBetween(anchor.line, op.line)))
       THEN ReturnsLater
       ELSE ~result.ok /\ result.err = "Overflow"

\* C3 witness: the Clock held another date before the write, device time
\* elapsed after it, and the read returned D + e
C3_Witness ==
    /\ ReadAfter("write_datetime") /\ WithinCycle /\ IsWhole(anchor.arg.time)
    /\ anchor.pre.base_date # anchor.arg.date
    /\ op.line # anchor.line
    /\ ReturnsLater

\* C4 as stated: after a successful write_date(d), with no device time
\* elapsed, read_datetime() returns d with the time-of-day read_datetime()
\* returned just before the write.
C4_Original ==
    ( /\ ReadAfter("write_date")
      /\ op.line = anchor.line
      /\ Before.ok )
    => ( /\ result.ok
         /\ result.val = [time |-> Before.val.time, date |-> anchor.arg] )

\* C5 as stated: after a successful write_time(t), with no device time
\* elapsed, read_datetime() returns the date it returned just before the write.
C5_Original ==
    ( /\ ReadAfter("write_time")
      /\ op.line = anchor.line
      /\ Before.ok )
    => (result.ok /\ result.val.date = Before.val.date)

\* C6 as stated: a successful write_time(t), t in whole seconds, followed by
\* read_time() with no elapsed device time returns t.
C6_Original ==
    ( /\ op.name = "read_time"
      /\ anchor.name = "write_time"
      /\ IsWhole(anchor.arg)
      /\ op.line = anchor.line )
    => (result.ok /\ result.val = anchor.arg)

\* C7 as stated: the stored rtc_offset is always in [0, 3_155_759_999] and
\* no subtraction producing it underflows.
C7_Original ==
    active => (InRange(DATETIME_MAX, rtc_offset) /\ ~ub)

\* the device read of the write_* call that has just returned failed
WriteReadFailed ==
    \/ op.name \in {"write_datetime", "write_date"}
         /\ ~try_read_datetime_offset(op.line).ok
    \/ op.name = "write_time" /\ ~try_read_time_offset(op.line).ok

\* C8: when the device read of write_datetime, write_date or write_time fails
\* the call returns that error and base_date and rtc_offset are as before it.
C8_FailedWriteKeepsClock ==
    WriteReadFailed
    => /\ ~result.ok
       /\ result = (IF op.name = "write_time"
                    THEN try_read_time_offset(op.line)
                    ELSE try_read_datetime_offset(op.line))
       /\ base_date = op.pre.base_date
       /\ rtc_offset = op.pre.rtc_offset

\* C8 witness: write_date with a date other than the Clock's failed on a
\* device whose second register carries the test flag
C8_Witness ==
    /\ op.name = "write_date"
    /\ op.answered
    /\ ~result.ok /\ result.err = "TestMode"
    /\ op.arg # op.pre.base_date

\* C9: a read leaves base_date and rtc_offset as they were, whether it
\* succeeds or fails, and a read repeated against the same bytes returns the
\* same result.
C9_ReadsLeaveClock ==
    /\ [](op.name \in Reads
            => /\ base_date = op.pre.base_date
               /\ rtc_offset = op.pre.rtc_offset)
    /\ [][(op.name \in Reads /\ op'.name = op.name /\ op'.line = op.line)
            => result' = result]_vars

\* C9 witness: a successful read_datetime on a Clock whose offset differs
\* from the one the device reports
C9_Witness ==
    /\ op.name = "read_datetime"
    /\ result.ok
    /\ rtc_offset # Reported(op.line).val

\* C10 as stated: with the port not enabled (no RTC present, or GPIO
\* disabled), Clock::new and every read_* and write_* fail with NotEnabled.
C10_Original ==
    (op.name \in ({"new"} \cup Reads \cup Writes) /\ ~op.answered)
    => (~result.ok /\ result.err = "NotEnabled")

---------------------------------------------------------------------------
\* what read_datetime returns to the call that has just returned, from the
\* same bytes and the same Clock
SameInstant ==
    read_datetime(op.pre.base_date, op.pre.rtc_offset, op.line).res

\* C11: with rtc_offset in range, read_time() returns the time-of-day that
\* read_datetime() returns at the same device instant.
C11_ReadTimeAgrees ==
    ( /\ op.name = "read_time"
      /\ InRange(DATETIME_MAX, op.pre.rtc_offset)
      /\ SameInstant.ok )
    => (result.ok /\ result.val = SameInstant.val.time)

\* C11 witness: read_time returned a time on a day on which the device's
\* time-of-day is behind the stored offset's, so that its subtraction mod
\* 86400 wrapped, and days have elapsed on the device
C11_Witness ==
    /\ op.name = "read_time"
    /\ InRange(DATETIME_MAX, op.pre.rtc_offset)
    /\ SameInstant.ok
    /\ result.ok
    /\ Reported(op.line).val[2] < op.pre.rtc_offset[2]
    /\ Reported(op.line).val[1] > op.pre.rtc_offset[1]

\* C12: read_date() returns the date component of what read_datetime()
\* returns at the same device instant, and fails as read_datetime() fails.
C12_ReadDateAgrees ==
    op.name = "read_date"
    => IF SameInstant.ok
       THEN result.ok /\ result.val = SameInstant.val.date
       ELSE ~result.ok /\ result.err = SameInstant.err

\* C12 witness: read_date returned a date later than base_date at a
\* time-of-day past noon
C12_Witness ==
    /\ op.name = "read_date"
    /\ result.ok
    /\ result.val > op.pre.base_date
    /\ 2 * TimeOfDay(SameInstant.val.time)[2] >= SecondsPerDay

\* the seconds from rtc_offset to the device offset, modulo the cycle
CircularSeconds(stored, reported) ==
    LET x == Minus(reported, stored)
    IN  IF x[1] < 0 THEN Plus(x, Cycle) ELSE x

\* base_date at midnight plus the circular difference, for the read that has
\* just returned: <<Julian day, second of the day>>
ReadSum ==
    LET duration == CircularDifference(DATETIME_MAX, Reported(op.line).val,
                                       op.pre.rtc_offset).v
    IN  <<op.pre.base_date + duration[1], duration[2]>>

\* C13: read_datetime and read_date return Error::Overflow exactly when
\* base_date at midnight plus the circular difference is beyond the last
\* date-time of the host calendar, and return that sum otherwise.
C13_OverflowExactly ==
    (op.name \in {"read_datetime", "read_date"} /\ Reported(op.line).ok)
    => /\ InRange(DATETIME_MAX, op.pre.rtc_offset)
            => ReadSum = Plus(<<op.pre.base_date, 0>>,
                              CircularSeconds(op.pre.rtc_offset,
                                              Reported(op.line).val))
       /\ IF ReadSum[1] > MaxJulianDay
          THEN ~result.ok /\ result.err = "Overflow"
          ELSE /\ result.ok
               /\ IF op.name = "read_date"
                  THEN result.val = ReadSum[1]
                  ELSE Instant(result.val) = <<ReadSum[1], ReadSum[2], 0>>

\* C13 witness: read_datetime failed with Overflow on a Clock whose base_date
\* is the calendar's last day, one day or more having elapsed on the device
C13_Witness ==
    /\ op.name = "read_datetime"
    /\ Reported(op.line).ok
    /\ ~result.ok /\ result.err = "Overflow"
    /\ ReadSum[1] > MaxJulianDay
    /\ InRange(DATETIME_MAX, op.pre.rtc_offset)

---------------------------------------------------------------------------
\* Properties of the conversions, under DecodeSpec

\* the two decimal digits a byte carries, and bit k of a byte
High(byte) == byte \div 16
Low(byte) == byte % 16
Bit(byte, k) == (byte \div (2 ^ k)) % 2 = 1
TwoDigits(byte) == High(byte) <= 9 /\ Low(byte) <= 9

\* C14: Bcd::try_from(byte) fails with InvalidBinaryCodedDecimal(byte) if and
\* only if the high or the low nibble of the byte exceeds 9, and otherwise
\* succeeds wrapping the byte unchanged.
C14_BcdTryFrom ==
    op.name = "Bcd"
    => IF High(op.arg) > 9 \/ Low(op.arg) > 9
       THEN /\ ~result.ok
            /\ result.err = "InvalidBinaryCodedDecimal"
            /\ result.val = op.arg
       ELSE result.ok /\ result.val = op.arg

\* C14 witness: 0xa5, whose high nibble alone exceeds 9, was rejected
C14_Witness ==
    /\ op.name = "Bcd"
    /\ op.arg = 165
    /\ ~result.ok

\* C15: for every byte Bcd::try_from accepts, to_binary() is
\* 10 * high nibble + low nibble, computed within 8 bits, and is in 0..=99.
C15_ToBinary ==
    op.name = "to_binary"
    => /\ 10 * High(op.arg) + Low(op.arg) <= MaxByte
       /\ result.val = 10 * High(op.arg) + Low(op.arg)
       /\ result.val \in 0..MaxBcd

\* C15 witness: to_binary of 0x99 returned 99
C15_Witness ==
    /\ op.name = "to_binary"
    /\ op.arg = 153
    /\ result.val = MaxBcd

\* C16: for every n in 0..=99 the byte (n / 10) << 4 | (n % 10) is accepted by
\* Bcd::try_from and its to_binary() is n.
C16_RoundTrip ==
    op.name = "binary_to_bcd" => (result.ok /\ result.val = op.arg)

\* C16 witness: 99 was encoded and converted back
C16_Witness ==
    /\ op.name = "binary_to_bcd"
    /\ op.arg = MaxBcd
    /\ result.ok

\* C17 as stated: a second byte with its top bit set decodes to
\* Error::TestMode; with the top bit clear it decodes to a Second iff its
\* value is 0..=59 and to InvalidSecond otherwise.
C17_Original ==
    op.name = "Second"
    => IF Bit(op.arg, 7)
       THEN ~result.ok /\ result.err = "TestMode"
       ELSE TwoDigits(op.arg)
            => IF 10 * High(op.arg) + Low(op.arg) <= 59
               THEN result.ok /\ result.val = 10 * High(op.arg) + Low(op.arg)
               ELSE ~result.ok /\ result.err = "InvalidSecond"

\* C18 as stated: an hour byte with its top bit set decodes to
\* Error::AmPmBitPresent; with the top bit clear it decodes to an Hour iff its
\* value is 0..=23 and to InvalidHour otherwise.
C18_Original ==
    op.name = "Hour"
    => IF Bit(op.arg, 7)
       THEN ~result.ok /\ result.err = "AmPmBitPresent"
       ELSE TwoDigits(op.arg)
            => IF 10 * High(op.arg) + Low(op.arg) <= 23
               THEN result.ok /\ result.val = 10 * High(op.arg) + Low(op.arg)
               ELSE ~result.ok /\ result.err = "InvalidHour"

\* the domain of a plain range-checked field and the error it reports
FieldLow(name) == IF name \in {"Month", "Day"} THEN 1 ELSE 0
FieldHigh(name) ==
    CASE name = "Year" -> 99
      [] name = "Month" -> 12
      [] name = "Day" -> 31
      [] name = "Minute" -> 59
FieldError(name) ==
    CASE name = "Year" -> "none"
      [] name = "Month" -> "InvalidMonth"
      [] name = "Day" -> "InvalidDay"
      [] name = "Minute" -> "InvalidMinute"

\* C19: for every valid Bcd, Month succeeds iff its value is 1..=12, Day iff
\* 1..=31, Minute iff 0..=59, each failing otherwise with its own error
\* carrying the value; Year accepts every value 0..=99.
C19_PlainFields ==
    (op.name \in {"Year", "Month", "Day", "Minute"} /\ TwoDigits(op.arg))
    => LET value == 10 * High(op.arg) + Low(op.arg)
       IN  IF FieldLow(op.name) <= value /\ value <= FieldHigh(op.name)
           THEN result.ok /\ result.val = value
           ELSE /\ ~result.ok
                /\ result.err = FieldError(op.name)
                /\ result.val = value

\* C19 witness: day 0 was rejected with InvalidDay(0)
C19_Witness ==
    /\ op.name = "Day"
    /\ op.arg = 0
    /\ ~result.ok /\ result.err = "InvalidDay" /\ result.val = 0

\* C20: Status::try_from(byte) fails with InvalidStatus(byte) if and only if
\* bit 0, 2 or 4 is set, and otherwise succeeds with every bit unchanged.
C20_StatusTryFrom ==
    op.name = "Status"
    => IF Bit(op.arg, 0) \/ Bit(op.arg, 2) \/ Bit(op.arg, 4)
       THEN /\ ~result.ok
            /\ result.err = "InvalidStatus"
            /\ result.val = op.arg
       ELSE result.ok /\ result.val = op.arg

\* C20 witness: a status byte with POWER, HOUR_24 and the other writable bits
\* set was accepted unchanged
C20_Witness ==
    /\ op.name = "Status"
    /\ op.arg = POWER + HOUR_24 + 32 + 8 + 2
    /\ result.ok /\ result.val = op.arg


---------------------------------------------------------------------------
\* Claims about the offset arithmetic

\* x reduced into one cycle, for x within one cycle of it
ModCycle(x) ==
    IF x[1] < 0 THEN Plus(x, Cycle)
    ELSE IF Ge(x, Cycle) THEN Minus(x, Cycle)
    ELSE x

LexLess(t1, t2) ==
    \E i \in 1..6 : t1[i] < t2[i] /\ \A j \in 1..(i - 1) : t1[j] = t2[j]

DaysInMonth(year, month) ==
    IF month = 2 THEN (IF year % 4 = 0 THEN 29 ELSE 28)
    ELSE IF month \in {4, 6, 9, 11} THEN 30
    ELSE 31

IsCalendarDate(t) == t[3] <= DaysInMonth(t[1], t[2])

\* C21: for field values in their domains calculate_rtc_offset returns a value
\* in [0, 3_155_759_999] that no 32-bit overflow has altered (its time of day
\* is the tuple's and its days are at least those of the whole years); it is
\* 0 for (0, January, 1, 0, 0, 0) and 3_155_759_999 for (99, December, 31,
\* 23, 59, 59).
C21_OffsetInRange ==
    op.name = "calculate_rtc_offset" =>
        \A i \in 1..2 :
            LET t == op.arg[i]
                offset == result.val[i]
            IN  /\ InRange(DATETIME_MAX, offset)
                /\ offset[2] = t[4] * 3600 + t[5] * 60 + t[6]
                /\ offset[1] >= t[1] * 365
                /\ t = <<0, 1, 1, 0, 0, 0>> => offset = Zero
                /\ t = <<99, 12, 31, 23, 59, 59>> => offset = DATETIME_MAX

C21_Witness ==
    /\ op.name = "calculate_rtc_offset"
    /\ op.arg = << <<0, 1, 1, 0, 0, 0>>, <<99, 12, 31, 23, 59, 59>> >>
    /\ result.val = <<Zero, DATETIME_MAX>>

\* C22 as stated: for any two field tuples the field types accept (Day 1..=31
\* for any month), the lexicographically smaller one has the smaller offset.
C22_Original ==
    (op.name = "calculate_rtc_offset" /\ LexLess(op.arg[1], op.arg[2])) =>
        Gt(result.val[2], result.val[1])

\* C22: for any two field tuples that are dates of the calendar (the day not
\* beyond the length of its month), the lexicographically smaller one has the
\* strictly smaller offset.
C22_CalendarDatesIncrease ==
    ( /\ op.name = "calculate_rtc_offset"
      /\ IsCalendarDate(op.arg[1])
      /\ IsCalendarDate(op.arg[2])
      /\ LexLess(op.arg[1], op.arg[2]) ) =>
        Gt(result.val[2], result.val[1])

C22_Witness ==
    /\ op.name = "calculate_rtc_offset"
    /\ op.arg = << <<4, 2, 29, 23, 59, 59>>, <<4, 3, 1, 0, 0, 0>> >>
    /\ result.val[2] = Plus(result.val[1], One)

\* C23: for scalars a, b in [0, MAX], a - b is in [0, MAX], is a - b when
\* a >= b and (MAX - b) + a + 1 when a < b, adding b to it gives a modulo
\* MAX + 1, and the difference written inline in read_datetime, read_date and
\* write_date has the same value; no unchecked operation leaves its range.
C23_WraparoundSubtraction ==
    op.name = "sub" =>
        LET a == op.arg[1]
            b == op.arg[2]
            d == result.val.sub
        IN  /\ InRange(DATETIME_MAX, d)
            /\ Ge(a, b) => d = Minus(a, b)
            /\ ~Ge(a, b) => d = Plus(Plus(Minus(DATETIME_MAX, b), a), One)
            /\ ModCycle(Plus(d, b)) = a
            /\ result.val.inline.v = d
            /\ ~result.val.ub
            /\ ~result.val.inline.ub

C23_Witness ==
    /\ op.name = "sub"
    /\ op.arg = << <<0, 19380>>, DATETIME_MAX >>
    /\ result.val.sub = <<0, 19381>>
    /\ result.val.inline.v = <<0, 19381>>

\* C24 as stated: a += b yields (a + b) mod (MAX + 1), also when a + b
\* exceeds MAX, so that (a - b) += b and (a += b) - b both give back a.
C24_Original ==
    /\ op.name = "add_assign" =>
           /\ result.val.sum = ModCycle(Plus(op.arg[1], op.arg[2]))
           /\ result.val.back.v = op.arg[1]
    /\ op.name = "sub" => result.val.back.v = op.arg[1]



---------------------------------------------------------------------------
\* Claims about the interrupt-enable flag during an exchange

\* the places of the first and the last DATA write among a function's accesses
FirstDataWrite(name) ==
    CHOOSE i \in 1..Len(Programs[name]) :
        /\ Programs[name][i][1] = "DATA.write"
        /\ \A j \in 1..(i - 1) : Programs[name][j][1] # "DATA.write"

LastDataWrite(name) ==
    CHOOSE i \in 1..Len(Programs[name]) :
        /\ Programs[name][i][1] = "DATA.write"
        /\ \A j \in (i + 1)..Len(Programs[name]) :
              Programs[name][j][1] # "DATA.write"

\* C25: when reset, try_read_status, set_status, is_test_mode,
\* try_read_datetime_offset or try_read_time_offset has returned, with a value
\* or with an error, IME has the value it had when the function was entered,
\* whichever value that was.
C25_ImeRestored ==
    op.name \in GpioFunctions => IME = op.arg

C25_Witness ==
    /\ op.name = "try_read_datetime_offset"
    /\ ~result.ok
    /\ op.arg = TRUE
    /\ IME = TRUE
    /\ Len(received) = 7

\* C26: IME is false at every DATA write, RW_MODE write and DATA read of a
\* gpio function and from its first DATA write to its last, and no interrupt
\* handler, which runs only while IME is true, takes a step between the two.
C26_NoHandlerInTransfer ==
    /\ (Running /\ Access[1] \in {"DATA.write", "DATA.read", "RW_MODE.write"})
           => ~IME
    /\ ( /\ exchange # "none"
         /\ FirstDataWrite(exchange) <= pc
         /\ pc < LastDataWrite(exchange) ) => ~IME
    /\ irq[1] # "none" =>
           ~( /\ FirstDataWrite(irq[1]) <= irq[2]
              /\ irq[2] < LastDataWrite(irq[1]) )

C26_Witness ==
    /\ exchange = "try_read_time_offset"
    /\ irq = <<"try_read_time_offset", 1>>
    /\ previous_ime = TRUE
    /\ ~IME
    /\ Len(received) = 2

---------------------------------------------------------------------------
\* Claims about the exchanges the Clock's operations make

Names(calls) == [i \in 1..Len(calls) |-> calls[i][1]]

\* C27: after Clock::new every read_* and write_* operation sends only the
\* ReadDateTime or ReadTime command, never Reset or WriteStatus, and never
\* calls write_byte (set_status is its only caller); the device's registers
\* are the same before and after any write_datetime, write_date or write_time.
C27_WritesLeaveDevice ==
    [][ op'.name \in (Reads \cup Writes) =>
          /\ Len(exchanges') > 0
          /\ \A i \in 1..Len(exchanges') :
                /\ exchanges'[i][1] \notin {"reset", "set_status"}
                /\ CommandOf(exchanges'[i][1])
                       \in {CommandReadDateTime, CommandReadTime}
          /\ op'.name \in Writes => device' = device ]_vars

C27_Witness ==
    /\ op.name = "write_time"
    /\ op.answered
    /\ result.ok
    /\ anchor.name = "write_time"
    /\ Names(exchanges) = <<"try_read_time_offset">>

\* C28: Clock::new makes its exchanges in the order enable, reset,
\* try_read_status, a second reset exactly when the status has POWER set, the
\* is_test_mode probe, a further reset exactly when the probe's seconds byte
\* has the test flag, set_status(HOUR_24), try_read_datetime_offset; it stops
\* after try_read_status only on an invalid status; a Clock exists exactly
\* when all of them succeeded.
C28_NewOrder ==
    op.name = "new" =>
        LET n == Names(exchanges)
            power == Bit(exchanges[3][2], 7)
            p == IF power THEN 5 ELSE 4
            test == Bit(exchanges[p][2], 7)
            h == IF test THEN p + 2 ELSE p + 1
        IN  /\ ENABLE = 1
            /\ Len(n) >= 3
            /\ n[1] = "enable" /\ n[2] = "reset" /\ n[3] = "try_read_status"
            /\ IF Len(n) = 3
               THEN ~result.ok /\ result.err = "InvalidStatus"
               ELSE /\ Len(n) = h + 1
                    /\ power => n[4] = "reset"
                    /\ n[p] = "is_test_mode"
                    /\ test => n[p + 1] = "reset"
                    /\ n[h] = "set_status"
                    /\ exchanges[h][2] = HOUR_24
                    /\ n[h + 1] = "try_read_datetime_offset"
            /\ active <=> result.ok
            /\ result.ok => Len(n) > 3

C28_Witness ==
    /\ op.name = "new"
    /\ result.ok
    /\ active
    /\ Names(exchanges) = <<"enable", "reset", "try_read_status",
                            "is_test_mode", "set_status",
                            "try_read_datetime_offset">>

\* C29: restoring a persisted Clock enables GPIO and checks the device again:
\* a Clock with the persisted fields is returned exactly when the status read
\* is valid with POWER clear and the test-mode probe is clear; otherwise the
\* restore fails and no Clock exists.
C29_RestoreChecksDevice ==
    op.name = "deserialize" =>
        /\ active <=> result.ok
        /\ result.ok => /\ base_date = op.arg.base_date
                        /\ rtc_offset = op.arg.rtc_offset
        /\ exchanges = <<>> => ~result.ok
        /\ exchanges # <<>> =>
              LET status == exchanges[3][2]
                  valid == /\ ~Bit(status, 0)
                           /\ ~Bit(status, 2)
                           /\ ~Bit(status, 4)
              IN  /\ ENABLE = 1
                  /\ exchanges[1][1] = "enable"
                  /\ exchanges[3][1] = "try_read_status"
                  /\ result.ok <=>
                        /\ valid
                        /\ ~Bit(status, 7)
                        /\ Len(exchanges) = 4
                        /\ exchanges[4][1] = "is_test_mode"
                        /\ ~Bit(exchanges[4][2], 7)

C29_Witness ==
    /\ op.name = "deserialize"
    /\ result.ok
    /\ active
    /\ rtc_offset = <<36524, 67020>>
    /\ Names(exchanges) = <<"enable", "set_status", "try_read_status",
                            "is_test_mode">>

\* C30 as stated: when every byte received is 0x00, or every byte is 0xFF,
\* each of Clock::new, read_* and write_* ends with an error and leaves the
\* Clock's fields as they were.
C30_Original ==
    ( /\ op.name \in ({"new"} \cup Reads \cup Writes)
      /\ op.line \in FloatingLines ) =>
        /\ ~result.ok
        /\ base_date = op.pre.base_date
        /\ rtc_offset = op.pre.rtc_offset

---------------------------------------------------------------------------
\* The transport functions

\* the DATA writes among the accesses made
DataWrites(accesses) ==
    SelectSeq(accesses, LAMBDA a : a[1] = "DATA.write")

\* the levels of SIO at the writes that raise SCK, in order
Pulses(accesses) ==
    LET w == DataWrites(accesses)
        RECURSIVE from(_)
        from(i) ==
            IF i > Len(w) THEN <<>>
            ELSE (IF Bit(w[i][2], 0) /\ ~Bit(w[i - 1][2], 0)
                  THEN <<IF Bit(w[i][2], 1) THEN 1 ELSE 0>>
                  ELSE <<>>) \o from(i + 1)
    IN  from(2)

\* the bits 7, 6, .. 0 of a byte
HighestFirst(byte) == [i \in 1..8 |-> IF Bit(byte, 8 - i) THEN 1 ELSE 0]

\* the bits 0, 1, .. 7 of a byte
LowestFirst(byte) == [i \in 1..8 |-> IF Bit(byte, i - 1) THEN 1 ELSE 0]

\* C31 as stated: send_command(cmd) presents on SIO, over eight clock pulses,
\* the 8 bits of the byte cmd << 1 from the most to the least significant
C31_Original ==
    op.name = "send_command"
        => Pulses(trace) = HighestFirst((op.arg * 2) % 256)

\* C31: send_command(cmd) presents on SIO, over eight clock pulses, the 8 bits
\* of cmd itself from the most to the least significant: the shift by one
\* only moves each bit to the position of SIO in DATA
C31_CommandItselfMsbFirst ==
    op.name = "send_command" => Pulses(trace) = HighestFirst(op.arg)

C31_Witness ==
    /\ op.name = "send_command"
    /\ op.arg = CommandReset
    /\ Pulses(trace) = <<0, 1, 1, 0, 0, 0, 0, 0>>

\* the transport function that is running or has just returned
Transport == IF exchange # "none" THEN exchange ELSE op.name

\* C32: in send_command and write_byte every bit is driven by exactly four
\* successive DATA writes, SIO the same in all four, CS high in all four, SCK
\* low in the first three and high in the fourth, so that a byte takes 32 DATA
\* writes and makes eight rising clock edges
C32_FourWritesPerBit ==
    Transport \in {"send_command", "write_byte"} =>
        /\ \A i \in 1..Len(trace) :
              LET first == ((i - 1) \div 4) * 4 + 1
              IN  /\ trace[i][1] = "DATA.write"
                  /\ Bit(trace[i][2], 2)
                  /\ Bit(trace[i][2], 1) = Bit(trace[first][2], 1)
                  /\ Bit(trace[i][2], 0) = (i % 4 = 0)
        /\ Len(trace) <= 32
        /\ op.name = Transport =>
              /\ Len(trace) = 32
              /\ Len(Pulses(trace)) = 8

C32_Witness ==
    /\ op.name = "write_byte"
    /\ op.arg = HOUR_24
    /\ Len(trace) = 32
    /\ Len(Pulses(trace)) = 8
    /\ \E i \in 1..32 : Bit(trace[i][2], 1)

\* the values DATA.read_volatile() returned, in order
Samples(accesses) ==
    SelectSeq(accesses, LAMBDA a : a[1] = "DATA.read")

\* C33: read_byte assembles the bits least significant first: bit k - 1 of
\* the byte it returns is the level of SIO in the k-th sample, whatever the
\* levels of SCK and CS in the values sampled
C33_ReadLsbFirst ==
    op.name = "read_byte" =>
        /\ result.ok
        /\ result.val \in Bytes
        /\ Len(Samples(trace)) = 8
        /\ \A k \in 1..8 :
              Bit(result.val, k - 1) = Bit(Samples(trace)[k][2], 1)

\* read_byte has returned 0x40 from samples in which SCK and CS were high
C33_Witness ==
    /\ op.name = "read_byte"
    /\ result.val = HOUR_24
    /\ \A k \in 1..8 :
          /\ Bit(Samples(trace)[k][2], 0)
          /\ Bit(Samples(trace)[k][2], 2)
    /\ Bit(Samples(trace)[7][2], 1)

\* the byte a peer builds from the levels it samples, as read_byte does:
\* each new level enters at bit 7 and the earlier ones move down
Reassembled(levels) ==
    LET RECURSIVE after(_)
        after(k) == IF k = 0 THEN 0
                    ELSE (after(k - 1) \div 2) + levels[k] * 128
    IN  after(Len(levels))

\* C34: write_byte(b) drives bit i of b during the (i + 1)-th clock pulse, the
\* order in which read_byte assembles, so a peer that reassembles as
\* read_byte does gets exactly b, and so does the device
C34_WriteMatchesRead ==
    op.name = "write_byte" =>
        /\ Pulses(trace) = LowestFirst(op.arg)
        /\ Reassembled(Pulses(trace)) = op.arg
        /\ SubSeq(clocked, 9, 16) = Pulses(trace)
        /\ LsbFirst(SubSeq(clocked, 9, 16)) = op.arg

\* HOUR_24 = 0x40 has gone out as 0,0,0,0,0,0,1,0 and arrives as 0x40
C34_Witness ==
    /\ op.name = "write_byte"
    /\ op.arg = HOUR_24
    /\ Pulses(trace) = <<0, 0, 0, 0, 0, 0, 1, 0>>
    /\ Reassembled(Pulses(trace)) = 64

---------------------------------------------------------------------------
\* The gpio functions, access by access

ReadFunctions ==
    {"try_read_status", "is_test_mode", "try_read_datetime_offset",
     "try_read_time_offset"}

\* the positions in the accesses made of the accesses of one kind
Positions(accesses, kind) ==
    {i \in 1..Len(accesses) : accesses[i][1] = kind}

\* C35: every exchange opens with DATA = SCK, DATA = CS | SCK and RW_MODE =
\* Write before the command; CS is high in every DATA write until the transfer
\* is over; RW_MODE becomes Read before the first read_byte of a read and stays
\* Write in reset and set_status; the exchange ends with SCK high, CS and SIO
\* low, and only then is IME restored
C35_Framing ==
    /\ (exchange \in GpioFunctions /\ pc >= 4 /\ pc <= Len(Program) - 3)
           => Bit(DATA, 2)
    /\ op.name \in GpioFunctions =>
          LET n == Len(trace)
          IN  /\ trace[3] = <<"DATA.write", SCK>>
              /\ trace[4] = <<"DATA.write", CS + SCK>>
              /\ trace[5] = <<"RW_MODE.write", RwModeWrite>>
              /\ Positions(trace, "DATA.write") \ {3, n - 2, n - 1} # {}
              /\ \A i \in Positions(trace, "DATA.write") \ {3, n - 2, n - 1} :
                    /\ i > 3
                    /\ i < n - 2
                    /\ Bit(trace[i][2], 2)
              /\ op.name \in ReadFunctions =>
                    /\ Positions(trace, "RW_MODE.write") = {5, 38}
                    /\ trace[38] = <<"RW_MODE.write", RwModeRead>>
                    /\ Positions(trace, "DATA.read") # {}
                    /\ \A i \in Positions(trace, "DATA.read") : i > 38
                    /\ RW_MODE = RwModeRead
              /\ op.name \in {"reset", "set_status"} =>
                    /\ Positions(trace, "RW_MODE.write") = {5}
                    /\ Positions(trace, "DATA.read") = {}
                    /\ RW_MODE = RwModeWrite
              /\ trace[n - 2] = <<"DATA.write", SCK>>
              /\ trace[n - 1] = <<"DATA.write", SCK>>
              /\ trace[n] = <<"IME.restore", 0>>
              /\ Positions(trace, "IME.restore") = {n}
              /\ DATA = SCK

C35_Witness ==
    /\ op.name = "try_read_time_offset"
    /\ trace[38] = <<"RW_MODE.write", RwModeRead>>
    /\ trace[Len(trace) - 1] = <<"DATA.write", SCK>>
    /\ trace[Len(trace)] = <<"IME.restore", 0>>
    /\ DATA = SCK

\* the six bytes that count, with the other registers cleared
SixBytes(dev) ==
    Regs(0, dev.year, dev.month, dev.day, dev.hour, dev.minute, dev.second)

\* C36: try_read_datetime_offset reads exactly seven bytes, in the order year,
\* month, day, weekday, hour, minute, second, and its outcome is that of the
\* six others whatever the weekday byte is; try_read_time_offset reads exactly
\* three bytes, hour, minute, second
C36_SevenBytesWeekdayIgnored ==
    /\ op.name = "try_read_datetime_offset" =>
          /\ Cardinality(Positions(trace, "DATA.read")) = 7 * 8
          /\ received = <<device.year, device.month, device.day,
                          device.weekday, device.hour, device.minute,
                          device.second>>
          /\ op.line.year = received[1]
          /\ op.line.month = received[2]
          /\ op.line.day = received[3]
          /\ op.line.hour = received[5]
          /\ op.line.minute = received[6]
          /\ op.line.second = received[7]
          /\ result = try_read_datetime_offset(SixBytes(device))
    /\ op.name = "try_read_time_offset" =>
          /\ Cardinality(Positions(trace, "DATA.read")) = 3 * 8
          /\ received = <<device.hour, device.minute, device.second>>
          /\ op.line.hour = received[1]
          /\ op.line.minute = received[2]
          /\ op.line.second = received[3]
          /\ result = try_read_time_offset(SixBytes(device))

\* a date-time has been read from a device whose weekday byte is no BCD
C36_Witness ==
    /\ op.name = "try_read_datetime_offset"
    /\ received[4] = 255
    /\ ~TwoDigits(received[4])
    /\ result.ok
    /\ result.val = calculate_rtc_offset(12, 12, 21, 5, 23, 0)

---------------------------------------------------------------------------
\* The offsets of consecutive seconds

\* C38: for every date-time of the calendar of the 100-year window, the offset
\* of the second that follows is the offset plus 1, across minute, hour, day,
\* month, leap-day and year boundaries, and after 99-12-31 23:59:59, whose
\* offset is 3_155_759_999, it is 0: plus 1 modulo 3_155_760_000
C38_NextSecondAddsOne ==
    op.name = "tick" =>
        /\ result.val[2] = ModCycle(Plus(result.val[1], One))
        /\ op.arg = <<99, 12, 31, 23, 59, 59>> =>
              /\ result.val[1] = <<36524, 86399>>
              /\ result.val[2] = <<0, 0>>
        /\ op.arg # <<99, 12, 31, 23, 59, 59>> =>
              /\ Gt(result.val[2], result.val[1])
              /\ Minus(result.val[2], result.val[1]) = <<0, 1>>

\* the leap day of year 04 has been reached from February 28
C38_Witness ==
    /\ op.name = "tick"
    /\ op.arg = <<4, 2, 28, 23, 59, 59>>
    /\ result.val[1] = <<1519, 86399>>
    /\ result.val[2] = <<1520, 0>>

---------------------------------------------------------------------------
\* The error of a read with several malformed bytes

\* what one register's byte is rejected for, "none" if it is accepted
OwnError(name, byte) ==
    LET value == 10 * High(byte) + Low(byte)
        low == IF name \in {"Month", "Day"} THEN 1 ELSE 0
        high == CASE name = "Year" -> 99
                  [] name = "Month" -> 12
                  [] name = "Day" -> 31
                  [] name = "Hour" -> 23
                  [] name \in {"Minute", "Second"} -> 59
    IN  IF ~TwoDigits(byte) THEN "InvalidBinaryCodedDecimal"
        ELSE IF name = "Hour" /\ Bit(byte, 7) THEN "AmPmBitPresent"
        ELSE IF name = "Second" /\ Bit(byte, 7) THEN "TestMode"
        ELSE IF value < low \/ value > high THEN "Invalid" \o name
        ELSE "none"

\* the errors of the registers of a line, in the order given
Errors(line, names) ==
    [i \in 1..Len(names) |->
        OwnError(names[i],
                 CASE names[i] = "Year" -> line.year
                   [] names[i] = "Month" -> line.month
                   [] names[i] = "Day" -> line.day
                   [] names[i] = "Hour" -> line.hour
                   [] names[i] = "Minute" -> line.minute
                   [] names[i] = "Second" -> line.second)]

\* the first of them that is an error, "none" if there is none
FirstError(errors) ==
    IF \A i \in 1..Len(errors) : errors[i] = "none" THEN "none"
    ELSE errors[CHOOSE i \in 1..Len(errors) :
                    /\ errors[i] # "none"
                    /\ \A j \in 1..(i - 1) : errors[j] = "none"]

\* the operation's outcome is the first error of the fields in that order
FirstErrorReturned(names) ==
    LET first == FirstError(Errors(op.arg, names))
    IN  IF first = "none" THEN result.ok
        ELSE ~result.ok /\ result.err = first

\* C39: when several bytes of one read are malformed the error returned is
\* that of the first failing field in the order year, month, day, hour,
\* minute, second (hour, minute, second for the time-only read), and within a
\* field an invalid BCD comes before the field's flag or range error
C39_FirstFailingField ==
    /\ op.name = "try_read_datetime_offset" =>
          FirstErrorReturned(<<"Year", "Month", "Day", "Hour", "Minute",
                               "Second">>)
    /\ op.name = "try_read_time_offset" =>
          FirstErrorReturned(<<"Hour", "Minute", "Second">>)

\* month out of range, hour with its flag set on a byte that is no BCD,
\* second in test mode: the month's error is returned
C39_Witness ==
    /\ op.name = "try_read_datetime_offset"
    /\ op.arg.year = 18
    /\ op.arg.month = 19
    /\ op.arg.hour = 197
    /\ op.arg.second = 128
    /\ ~result.ok
    /\ result.err = "InvalidMonth"

---------------------------------------------------------------------------
\* Sub-second parts of written values

\* a time without its sub-second part
WholeSeconds(time) == [time EXCEPT !.nanosecond = 0]

\* the time written is earlier in the day than the time the Clock showed
WrittenEarlier ==
    Gt(TimeOfDay(Before.val.time), TimeOfDay(anchor.arg))

\* read_time has just returned on a Clock last set by write_time(t), t with a
\* sub-second part, from the same bytes of the device
ReadTimeAfterFractionalWrite ==
    /\ op.name = "read_time"
    /\ anchor.name = "write_time"
    /\ ~IsWhole(anchor.arg)
    /\ op.line = anchor.line
    /\ Before.ok

\* C40 as stated: with no elapsed device time, read_datetime() after
\* write_datetime(D) returns D without its sub-second part, and read_time()
\* after write_time(t) returns t without its sub-second part, for every t with
\* a sub-second part, earlier or later than the time shown before the write
C40_Original ==
    /\ (ReadAfter("write_datetime") /\ op.line = anchor.line)
          => /\ result.ok
             /\ result.val = [time |-> WholeSeconds(anchor.arg.time),
                              date |-> anchor.arg.date]
    /\ ReadTimeAfterFractionalWrite
          => (result.ok /\ result.val = WholeSeconds(anchor.arg))

\* the half about write_datetime, which holds
WriteDatetimeDropsSubSecond ==
    (ReadAfter("write_datetime") /\ op.line = anchor.line)
        => /\ result.ok
           /\ result.val = [time |-> WholeSeconds(anchor.arg.time),
                            date |-> anchor.arg.date]

\* the half about write_time for a time later than, or within the second
\* of, the time shown, which holds
WriteTimeLaterDropsSubSecond ==
    (ReadTimeAfterFractionalWrite /\ ~WrittenEarlier)
        => (result.ok /\ result.val = WholeSeconds(anchor.arg))

\* for an earlier time, read_time returns the written time one second up
WriteTimeEarlierReadsOneUp ==
    (ReadTimeAfterFractionalWrite /\ WrittenEarlier)
        => (result.ok /\ TimeOfDay(result.val)
                           = Plus(TimeOfDay(anchor.arg), One))

---------------------------------------------------------------------------
\* C37: fixed numbers of register accesses, no waiting, nothing after an error

\* the register accesses each gpio function makes from entry to return
AccessCount(name) ==
    CASE name = "enable" -> 1
      [] name = "reset" -> 40
      [] name = "set_status" -> 72
      [] name = "try_read_status" -> 97
      [] name \in {"is_test_mode", "try_read_time_offset"} -> 209
      [] name = "try_read_datetime_offset" -> 433

RECURSIVE AccessesMade(_)
AccessesMade(calls) ==
    IF calls = <<>> THEN 0
    ELSE AccessCount(Head(calls)[1]) + AccessesMade(Tail(calls))

\* the calls of a Clock::new that ran to its end, by the resets it took
NewCalls(afterStatus, afterTest) ==
    <<"enable", "reset", "try_read_status">>
        \o (IF afterStatus THEN <<"reset">> ELSE <<>>)
        \o <<"is_test_mode">>
        \o (IF afterTest THEN <<"reset">> ELSE <<>>)
        \o <<"set_status", "try_read_datetime_offset">>

ConditionalResets ==
    Cardinality({i \in 1..Len(exchanges) : exchanges[i][1] = "reset"}) - 1

HasReturned(name) == operation[1] = "none" /\ op.name = name

\* the statement as written: when a Clock operation has returned, the number
\* of register accesses it made is fixed by the operation and, for Clock::new,
\* by the conditional resets it took
C37_Original ==
    /\ HasReturned("new") => Len(trace) = 852 + 40 * ConditionalResets
    /\ \A name \in ClockOperations \ {"new"} :
          HasReturned(name) => Len(trace) = AccessesMade(ExchangesOf(name))

\* C37 (amended): every gpio function makes its fixed number of register
\* accesses whatever the device drives; a running operation always has a next
\* step (a write with no call left returns or panics); Clock::new that ran to its end made 852 accesses plus 40 for each
\* conditional reset it took, and 138 when try_read_status returned an error;
\* the other operations make the accesses of their one exchange; a gpio
\* function is entered only while no call of the operation has returned an
\* error
C37_FixedAccessesCutAtError ==
    /\ Len(trace) = AccessesMade(exchanges)
                        + (IF exchange = "none" THEN 0 ELSE pc)
    /\ exchange \in GpioFunctions => pc <= AccessCount(exchange)
    /\ operation[1] # "none" =>
          \/ ENABLED (Proceed \/ ReadIME \/ ClearIME \/ WriteRWMODE
                         \/ WriteDATA \/ ReadDATA \/ RestoreIME \/ Resume
                         \/ FinishNew \/ FinishRead)
          \/ Returning({"write_datetime", "write_date", "write_time"})
    /\ operation[1] # "none" /\ exchange # "none" => result.ok
    /\ HasReturned("new") /\ result.ok =>
          /\ \E s, t \in BOOLEAN : Names(exchanges) = NewCalls(s, t)
          /\ Len(trace) = 852 + 40 * ConditionalResets
    /\ HasReturned("new") /\ ~result.ok =>
          \/ /\ Names(exchanges) = <<"enable", "reset", "try_read_status">>
             /\ Len(trace) = 138
          \/ /\ \E s, t \in BOOLEAN : Names(exchanges) = NewCalls(s, t)
             /\ Len(trace) = 852 + 40 * ConditionalResets
    /\ \A name \in ClockOperations \ {"new"} :
          HasReturned(name) =>
              /\ Names(exchanges) = Names(ExchangesOf(name))
              /\ Len(trace) = AccessesMade(ExchangesOf(name))

\* Clock::new has returned after taking both conditional resets, and in
\* another run after try_read_status returned an error
C37_Witness ==
    /\ HasReturned("new")
    /\ result.ok
    /\ Len(trace) = 932
    /\ Names(exchanges) = NewCalls(TRUE, TRUE)

C37_ErrorWitness ==
    /\ HasReturned("new")
    /\ ~result.ok
    /\ Len(trace) = 138

===========================================================================
